---- MODULE Spec2Model ----
(***************************************************************************)
(* Query orchestration engine of the Multi-Agent Orchestrator:             *)
(*   - the execution planner (state.py, create_parallel_execution_plan),   *)
(*   - the intent cache (cache.py, IntentCache),                           *)
(*   - the orchestration run (graph.py, nodes.py): analysis, planning,     *)
(*     fork-join batch execution, routing, synthesis / error handling.     *)
(*   - the query decomposer (cache.py, QueryDecomposer),                   *)
(*   - the context window manager and session store (context.py),          *)
(*   - the error recovery loop (reasoning.py, ErrorRecovery).              *)
(***************************************************************************)
EXTENDS Integers, Sequences, FiniteSets, TLC

\* ------------------------------------------------------------------------
\* Bounds of the model
\* ------------------------------------------------------------------------
\* largest number of dependencies one requirement lists (planner inputs)
MaxDeps == 2

\* ------------------------------------------------------------------------
\* Domain services
\* ------------------------------------------------------------------------
\* the four services get_agent_instance knows
Agents == {"shopcore", "shipstream", "payguard", "caredesk"}

\* the order in which a requirement list names the services
AgentOrder == <<"shopcore", "shipstream", "payguard", "caredesk">>

VARIABLES
    pc,                 \* position of the planner / of the orchestration run
    required_agents,    \* state["required_agents"]: sequence of AgentRequirement
    parallel_batches,   \* state["parallel_batches"] = plan.batches: sequence of sets
    execution_order,    \* DecomposedQuery.execution_order: sequence of sets
    cache,              \* IntentCache._cache: the dict, in insertion order
    now,                \* datetime.utcnow(), in ticks
    hits,               \* IntentCache._hits
    misses,             \* IntentCache._misses
    last_call,          \* the last get / set call on the cache and what it returned
    last_set,           \* the last set call on the cache
    tpc,                \* per caller thread: its position inside get / set
    tloc,               \* per caller thread: the locals of its get / set call
    runs,               \* number of process_query calls made so far
    user_query,         \* state["user_query"]: the query of the current run
    route,              \* the branch analyze_query took in the current run
    current_state,      \* state["current_state"]
    state_history,      \* state["state_history"]
    intent,             \* state["intent"]
    intent_confidence,  \* state["intent_confidence"], in hundredths
    entities,           \* state["entities"]
    error,              \* state["error"]
    batch_idx,          \* batch_idx of the loop of execute_agents_parallel
    call,               \* per service: the state of its call in the current run
    batch_results,      \* results of execute_batch_parallel, in completion order
    agent_results,      \* state["agent_results"], in insertion order
    agents_used,        \* state["agents_used"]
    final_response,     \* state["final_response"], as its lines
    response,           \* what process_query returned
    accumulated_context, \* state["accumulated_context"]
    context,            \* the dict context of the batch loop of execute_agents_parallel
    call_context,       \* per service: the context its call was handed
    attempts,           \* per service: how many times the service was executed
    synthesis,          \* what the synthesis call of the current run did
    sessions,           \* SessionMemoryStore._sessions: the dict, in insertion order
    mem_call,           \* the last call on the session store or on a context manager
    decomposed,         \* DecomposedQuery: its sub_queries and its dependencies
    recovery,           \* the locals of ErrorRecovery.execute_with_recovery
    filled_plan         \* per query: the batches of its run that stored a cache entry

planVars == <<pc, required_agents, parallel_batches, execution_order>>

cacheVars == <<cache, now, hits, misses, last_call, last_set>>

threadVars == <<tpc, tloc>>

runVars == <<runs, user_query, route, current_state, state_history, intent,
             intent_confidence, entities, error, batch_idx, call,
             batch_results, agent_results, agents_used, final_response,
             response, accumulated_context, context, call_context, attempts,
             synthesis>>

memVars == <<sessions, mem_call>>

vars == <<pc, required_agents, parallel_batches, execution_order,
          cache, now, hits, misses, last_call, last_set, tpc, tloc,
          runs, user_query, route, current_state, state_history, intent,
          intent_confidence, entities, error, batch_idx, call,
          batch_results, agent_results, agents_used, final_response,
          response, accumulated_context, context, call_context, attempts,
          synthesis, sessions, mem_call, decomposed,
          recovery, filled_plan>>

\* ------------------------------------------------------------------------
\* AgentRequirement and the execution planner (state.py)
\* ------------------------------------------------------------------------
\* AgentRequirement(agent_name, depends_on)
AgentRequirement(name, deps) == [agent_name |-> name, depends_on |-> deps]

Range(s) == {s[i] : i \in 1..Len(s)}

\* all_agents = set(req.agent_name for req in required_agents)
AllAgents(reqs) == {reqs[i].agent_name : i \in 1..Len(reqs)}

\* dependencies = {req.agent_name: req.depends_on for req in required_agents}
\* (a dict comprehension: the last requirement of a name wins)
Dependencies(reqs) ==
    [a \in AllAgents(reqs) |->
        LET last == CHOOSE i \in 1..Len(reqs) :
                        /\ reqs[i].agent_name = a
                        /\ \A j \in 1..Len(reqs) : reqs[j].agent_name = a => j <= i
        IN  reqs[last].depends_on]

\* mutant of IsReady: any() in place of all()
IsReadyAny(deps, scheduled) == \E dep \in deps : dep \in scheduled

\* all(dep in scheduled for dep in deps)
IsReady(deps, scheduled) == \A dep \in deps : dep \in scheduled

\* the for loop of one round over all_agents instead of all_agents - scheduled
CurrentBatchAll(all_agents, dependencies, scheduled) ==
    {agent \in all_agents : IsReady(dependencies[agent], scheduled)}

\* the for loop of one round: the agents of all_agents - scheduled whose
\* dependencies are all scheduled
CurrentBatch(all_agents, dependencies, scheduled) ==
    {agent \in all_agents \ scheduled : IsReady(dependencies[agent], scheduled)}

\* mutant of PlanLoop: an empty round schedules one of the remaining agents
RECURSIVE PlanLoopOne(_, _, _, _)
PlanLoopOne(all_agents, dependencies, batches, scheduled) ==
    IF scheduled = all_agents
    THEN batches
    ELSE LET ready == CurrentBatch(all_agents, dependencies, scheduled)
             current_batch == IF ready = {}
                              THEN {CHOOSE a \in all_agents \ scheduled : TRUE}
                              ELSE ready
         IN  PlanLoopOne(all_agents, dependencies,
                         Append(batches, current_batch),
                         scheduled \cup current_batch)

\* the while loop: one round appends one batch; an empty round schedules
\* everything that remains
RECURSIVE PlanLoop(_, _, _, _)
PlanLoop(all_agents, dependencies, batches, scheduled) ==
    IF scheduled = all_agents
    THEN batches
    ELSE LET ready == CurrentBatch(all_agents, dependencies, scheduled)
             current_batch == IF ready = {} THEN all_agents \ scheduled ELSE ready
         IN  PlanLoop(all_agents, dependencies,
                      Append(batches, current_batch),
                      scheduled \cup current_batch)

\* create_parallel_execution_plan(required_agents).batches
create_parallel_execution_plan(reqs) ==
    PlanLoop(AllAgents(reqs), Dependencies(reqs), <<>>, {})

\* dependencies.get(agent, [])
DepsOf(dependencies, agent) ==
    IF agent \in DOMAIN dependencies THEN dependencies[agent] ELSE {}

\* one round of _determine_order: the agents not executed whose dependencies
\* are all executed
OrderBatch(agents, dependencies, executed) ==
    {agent \in agents \ executed :
        \A d \in DepsOf(dependencies, agent) : d \in executed}

\* mutant of OrderLoop: the loop breaks on an empty round without adding the
\* remaining agents
RECURSIVE OrderLoopBreak(_, _, _, _)
OrderLoopBreak(agents, dependencies, order, executed) ==
    IF ~(Cardinality(executed) < Cardinality(agents))
    THEN order
    ELSE LET batch == OrderBatch(agents, dependencies, executed)
         IN  IF batch # {}
             THEN OrderLoopBreak(agents, dependencies, Append(order, batch),
                                 executed \cup batch)
             ELSE order

\* the while loop of _determine_order: len(executed) < len(agents); a round
\* with no ready agent adds the remaining agents and breaks
RECURSIVE OrderLoop(_, _, _, _)
OrderLoop(agents, dependencies, order, executed) ==
    IF ~(Cardinality(executed) < Cardinality(agents))
    THEN order
    ELSE LET batch == OrderBatch(agents, dependencies, executed)
         IN  IF batch # {}
             THEN OrderLoop(agents, dependencies, Append(order, batch),
                            executed \cup batch)
             ELSE Append(order, agents \ executed)

\* QueryDecomposer._determine_order(sub_queries, dependencies), with
\* agents = list(set(sq["agent"] for sq in sub_queries))
determine_order(agents, dependencies) == OrderLoop(agents, dependencies, <<>>, {})

\* index of the batch that holds agent a (0 when no batch holds it)
BatchIndex(batches, a) ==
    IF \E i \in 1..Len(batches) : a \in batches[i]
    THEN CHOOSE i \in 1..Len(batches) : a \in batches[i]
    ELSE 0

\* ------------------------------------------------------------------------
\* Planner inputs: requirement lists over the four services
\* ------------------------------------------------------------------------
DepSets == {D \in SUBSET Agents : Cardinality(D) <= MaxDeps}

\* the requirement list that names the services of S in AgentOrder, with the
\* dependencies of dm
RECURSIVE ReqList(_, _, _)
ReqList(S, dm, i) ==
    IF i > Len(AgentOrder) THEN <<>>
    ELSE IF AgentOrder[i] \in S
         THEN <<AgentRequirement(AgentOrder[i], dm[AgentOrder[i]])>>
                  \o ReqList(S, dm, i + 1)
         ELSE ReqList(S, dm, i + 1)

\* every listed dependency is in the set, and no service depends on itself
Closed(reqs) ==
    \A i \in 1..Len(reqs) :
        /\ reqs[i].depends_on \subseteq AllAgents(reqs)
        /\ reqs[i].agent_name \notin reqs[i].depends_on

\* the services reachable from a along depends_on in at most n steps
RECURSIVE Reach(_, _, _)
Reach(dependencies, S, n) ==
    IF n = 0 THEN S
    ELSE Reach(dependencies,
               S \cup UNION {dependencies[a] : a \in S \cap DOMAIN dependencies},
               n - 1)

Acyclic(reqs) ==
    LET dependencies == Dependencies(reqs)
    IN  \A a \in AllAgents(reqs) :
            a \notin Reach(dependencies, dependencies[a], Cardinality(Agents))

WellFormed(reqs) == Closed(reqs) /\ Acyclic(reqs)

\* ------------------------------------------------------------------------
\* Queries: the texts the model runs, as sequences of characters
\* ------------------------------------------------------------------------
QueryText ==
       1 :> <<"r", "e", "f", "u", "n", "d">>
    @@ 2 :> <<"S", "h", "o", "w", " ", "m", "e", " ", "t", "h", "e", " ",
              "r", "e", "f", "u", "n", "d">>
    @@ 3 :> <<"m", "y", " ", "t", "i", "c", "k", "e", "t", "s">>
    @@ 4 :> <<"h", "i">>
    @@ 5 :> <<"b", "y", "e">>
    @@ 6 :> <<"I", " ", "h", "a", "v", "e", " ", "a", " ", "t", "i", "c", "k",
              "e", "t", " ", "a", "b", "o", "u", "t", " ", "m", "y", " ", "o",
              "r", "d", "e", "r", ",", " ", "h", "a", "s", " ", "i", "t", " ",
              "a", "r", "r", "i", "v", "e", "d">>
    @@ 7 :> <<"W", "h", "e", "r", "e", " ", "i", "s", " ", "m", "y", " ",
              "o", "r", "d", "e", "r", " ", "f", "o", "r", " ", "t", "h",
              "e", " ", "G", "a", "m", "i", "n", "g", " ", "M", "o", "n",
              "i", "t", "o", "r">>
    @@ 8 :> <<"r", "e", "f", "u", "n", "d", " ", "$", "1", "5", "0">>

Queries == DOMAIN QueryText

\* ------------------------------------------------------------------------
\* IntentCache._hash_query (cache.py)
\* ------------------------------------------------------------------------
UpperAlpha == <<"A", "B", "C", "D", "E", "F", "G", "H", "I", "J", "K", "L", "M",
                "N", "O", "P", "Q", "R", "S", "T", "U", "V", "W", "X", "Y", "Z">>

LowerAlpha == <<"a", "b", "c", "d", "e", "f", "g", "h", "i", "j", "k", "l", "m",
                "n", "o", "p", "q", "r", "s", "t", "u", "v", "w", "x", "y", "z">>

\* str.lower()
Lower(s) ==
    [i \in 1..Len(s) |->
        IF \E j \in 1..Len(UpperAlpha) : UpperAlpha[j] = s[i]
        THEN LowerAlpha[CHOOSE j \in 1..Len(UpperAlpha) : UpperAlpha[j] = s[i]]
        ELSE s[i]]

\* str.replace(word, ""): every occurrence of word, left to right
RECURSIVE RemoveAll(_, _)
RemoveAll(s, word) ==
    IF Len(s) < Len(word) THEN s
    ELSE IF SubSeq(s, 1, Len(word)) = word
         THEN RemoveAll(SubSeq(s, Len(word) + 1, Len(s)), word)
         ELSE <<s[1]>> \o RemoveAll(Tail(s), word)

\* str.split(): the maximal runs of non-blank characters
RECURSIVE Split(_, _, _)
Split(s, word, acc) ==
    IF s = <<>>
    THEN IF word = <<>> THEN acc ELSE Append(acc, word)
    ELSE IF s[1] = " "
         THEN Split(Tail(s), <<>>, IF word = <<>> THEN acc ELSE Append(acc, word))
         ELSE Split(Tail(s), Append(word, s[1]), acc)

\* " ".join(words)
RECURSIVE Join(_)
Join(words) ==
    IF words = <<>> THEN <<>>
    ELSE IF Len(words) = 1 THEN words[1]
         ELSE words[1] \o <<" ">> \o Join(Tail(words))

\* the words _hash_query removes, in its order
StopWords == <<
        <<"p", "l", "e", "a", "s", "e">>,
        <<"c", "a", "n">>,
        <<"y", "o", "u">>,
        <<"t", "e", "l", "l">>,
        <<"m", "e">>,
        <<"s", "h", "o", "w">>,
        <<"t", "h", "e">>,
        <<"a">>,
        <<"a", "n">> >>

RECURSIVE RemoveStopWords(_, _)
RemoveStopWords(s, i) ==
    IF i > Len(StopWords) THEN s
    ELSE RemoveStopWords(RemoveAll(s, StopWords[i]), i + 1)

\* _hash_query(query): the normalized text; the md5 prefix of it is taken to
\* be one-to-one on the texts of the model.  strip() is subsumed by the final
\* split / join.
hash_query(text) == Join(Split(RemoveStopWords(Lower(text), 1), <<>>, <<>>))

\* the key of each query of the model
KeyOf == [q \in Queries |-> hash_query(QueryText[q])]

\* ------------------------------------------------------------------------
\* IntentCache (cache.py)
\* ------------------------------------------------------------------------
\* IntentCache(max_size=100, ttl_seconds=3600), scaled down
max_size == 2
ttl_seconds == 2

\* the clock stops at MaxClock ticks
MaxClock == 3

\* at most MaxGets get calls are counted by the hit / miss counters
MaxGets == 2

Miss == [hit |-> FALSE]

\* CachedIntent(...)
CachedIntent(args, timestamp) ==
    [intent |-> args.intent, confidence |-> args.confidence,
     entities |-> args.entities, required_agents |-> args.required_agents,
     pattern |-> args.pattern, timestamp |-> timestamp,
     ttl_seconds |-> ttl_seconds]

\* mutant of is_expired: >= in place of >
is_expired_ge(cached, t) == t - cached.timestamp >= cached.ttl_seconds

\* CachedIntent.is_expired(): utcnow() - timestamp > timedelta(ttl_seconds)
is_expired(cached, t) == t - cached.timestamp > cached.ttl_seconds

\* key in self._cache
HasKey(c, key) == \E i \in 1..Len(c) : c[i].key = key

\* self._cache[key]
Lookup(c, key) == c[CHOOSE i \in 1..Len(c) : c[i].key = key].value

\* del self._cache[key]
DictDel(c, key) == SelectSeq(c, LAMBDA e : e.key # key)

\* self._cache[key] = value: an existing key keeps its place in the dict
DictPut(c, key, value) ==
    IF HasKey(c, key)
    THEN [i \in 1..Len(c) |->
             IF c[i].key = key THEN [key |-> key, value |-> value] ELSE c[i]]
    ELSE Append(c, [key |-> key, value |-> value])

\* min(self._cache, key=lambda k: self._cache[k].timestamp): the first key,
\* in the dict's order, among those of the least timestamp
OldestKey(c) ==
    c[CHOOSE i \in 1..Len(c) :
        /\ \A j \in 1..Len(c) : c[i].value.timestamp <= c[j].value.timestamp
        /\ \A j \in 1..(i - 1) : c[j].value.timestamp > c[i].value.timestamp].key

\* mutant of IsFull: > in place of >=
IsFullGt(c) == Len(c) > max_size

\* len(self._cache) >= self._max_size
IsFull(c) == Len(c) >= max_size

\* IntentCache.get: what it returns
GetResult(c, key, t) ==
    IF HasKey(c, key) /\ ~is_expired(Lookup(c, key), t)
    THEN [hit |-> TRUE, cached |-> Lookup(c, key)]
    ELSE Miss

\* IntentCache.get: the dict it leaves
CacheAfterGet(c, key, t) ==
    IF HasKey(c, key) /\ is_expired(Lookup(c, key), t)
    THEN DictDel(c, key)
    ELSE c

\* IntentCache.set: the dict it leaves
CacheAfterSet(c, key, args, t) ==
    LET evicted == IF IsFull(c) THEN DictDel(c, OldestKey(c)) ELSE c
    IN  DictPut(evicted, key, CachedIntent(args, t))

\* intent_cache.get(query), as one step of one caller
IntentCacheGet(q) ==
    LET key == KeyOf[q]
        ret == GetResult(cache, key, now)
    IN  /\ cache' = CacheAfterGet(cache, key, now)
        /\ hits' = IF ret.hit THEN hits + 1 ELSE hits
        /\ misses' = IF ret.hit THEN misses ELSE misses + 1
        /\ last_call' = [op |-> "get", query |-> q, key |-> key, time |-> now,
                         ret |-> ret,
                         found_expired |-> /\ HasKey(cache, key)
                                           /\ is_expired(Lookup(cache, key), now)]
        /\ UNCHANGED <<now, last_set>>

\* intent_cache.set(query, intent, confidence, entities, agents, pattern),
\* as one step of one caller
IntentCacheSet(q, args) ==
    LET key == KeyOf[q]
    IN  /\ cache' = CacheAfterSet(cache, key, args, now)
        /\ last_call' = [op |-> "set", query |-> q, key |-> key, time |-> now,
                         ret |-> Miss, pre |-> cache]
        /\ last_set' = [op |-> "set", query |-> q, key |-> key, time |-> now,
                        cached |-> CachedIntent(args, now)]
        /\ UNCHANGED <<now, hits, misses>>

\* time passes
Tick ==
    /\ now < MaxClock
    /\ now' = now + 1

NoCall == [op |-> "none"]

\* IntentCache.__init__
CacheInit ==
    /\ cache = <<>>
    /\ now = 0
    /\ hits = 0
    /\ misses = 0
    /\ last_call = NoCall
    /\ last_set = NoCall

\* the callers of the shared cache: request threads, each inside analyze_query
NThreads == 2

Threads == 1..NThreads

NoLocals == [query |-> 0, calls |-> 0]

\* an empty dict
NoContext == [k \in {} |-> ""]

\* execute_with_recovery has not been entered
RecoveryIdle ==
    recovery = [attempt |-> 0, last_error |-> "None", attempts |-> <<>>,
                calls |-> <<>>, result |-> "none"]

\* no query has been decomposed
DecomposeIdle == decomposed = [sub_queries |-> <<>>, dependencies |-> <<>>]

\* SessionMemoryStore.__init__
MemInit ==
    /\ sessions = <<>>
    /\ mem_call = NoCall

\* no process_query call has been made
RunIdle ==
    /\ runs = 0
    /\ user_query = 0
    /\ route = "none"
    /\ current_state = "none"
    /\ state_history = <<>>
    /\ intent = ""
    /\ intent_confidence = 0
    /\ entities = <<>>
    /\ error = "None"
    /\ batch_idx = 0
    /\ call = [a \in {} |-> "idle"]
    /\ batch_results = <<>>
    /\ agent_results = <<>>
    /\ agents_used = <<>>
    /\ final_response = <<>>
    /\ response = [success |-> FALSE, made |-> FALSE]
    /\ accumulated_context = NoContext
    /\ context = NoContext
    /\ call_context = [a \in {} |-> NoContext]
    /\ attempts = [a \in {} |-> 0]
    /\ synthesis = "none"
    /\ filled_plan = [q \in {} |-> <<>>]

ThreadInit ==
    /\ tpc = [t \in Threads |-> "idle"]
    /\ tloc = [t \in Threads |-> NoLocals]

\* the arguments analyze_query passes to intent_cache.set: a pattern match
\* (confidence 0.85) and an external classification
SetArgs == {
    [intent |-> "refund_request", confidence |-> 85, entities |-> <<>>,
     required_agents |-> <<"shopcore", "payguard">>, pattern |-> "refund_status"],
    [intent |-> "general_inquiry", confidence |-> 50, entities |-> <<>>,
     required_agents |-> <<"shopcore">>, pattern |-> "unknown"] }

\* ------------------------------------------------------------------------
\* Specification of the cache used by one caller at a time
\* ------------------------------------------------------------------------
\* the queries the caller asks about: two of them share a key
CacheQueries == {1, 2, 3, 4, 5}

CacheSpecInit ==
    /\ pc = "cache"
    /\ required_agents = <<>>
    /\ parallel_batches = <<>>
    /\ execution_order = <<>>
    /\ CacheInit
    /\ ThreadInit
    /\ RunIdle
    /\ MemInit
    /\ DecomposeIdle
    /\ RecoveryIdle

DoGet ==
    /\ hits + misses < MaxGets
    /\ \E q \in CacheQueries : IntentCacheGet(q)
    /\ UNCHANGED <<planVars, threadVars, memVars, decomposed, recovery, filled_plan, runVars>>

DoSet ==
    /\ \E q \in CacheQueries : \E args \in SetArgs : IntentCacheSet(q, args)
    /\ UNCHANGED <<planVars, threadVars, memVars, decomposed, recovery, filled_plan, runVars>>

DoTick ==
    /\ Tick
    /\ UNCHANGED <<cache, hits, misses, last_call, last_set>>
    /\ UNCHANGED <<planVars, threadVars, memVars, decomposed, recovery, filled_plan, runVars>>

CacheNext == DoGet \/ DoSet \/ DoTick

SpecCache == CacheSpecInit /\ [][CacheNext]_vars

\* C8: a get(q) that follows set(q, v) with no set in between returns v while
\* now - created_at <= ttl and a miss once now - created_at > ttl; no get
\* returns an entry older than its ttl; a get that finds an expired entry
\* removes it.
C8_RoundTrip ==
    last_call.op = "get" =>
        /\ (last_set.op = "set" /\ last_set.query = last_call.query) =>
               IF last_call.time - last_set.time <= ttl_seconds
               THEN last_call.ret = [hit |-> TRUE, cached |-> last_set.cached]
               ELSE last_call.ret = Miss
        /\ last_call.ret.hit =>
               last_call.time - last_call.ret.cached.timestamp
                   <= last_call.ret.cached.ttl_seconds
        /\ last_call.found_expired => ~HasKey(cache, last_call.key)

\* set(q, v), a get(q) that hit, and later a get(q) that found the entry expired
C8_Witness ==
    /\ last_call.op = "get"
    /\ last_set.op = "set"
    /\ last_set.query = last_call.query
    /\ last_call.found_expired
    /\ hits = 1

Contains(text, w) ==
    \E i \in 1..(Len(text) - Len(w) + 1) : SubSeq(text, i, i + Len(w) - 1) = w

CONJUNCTIONS == <<
    <<" ", "a", "n", "d", " ">>,
    <<" ", "a", "l", "s", "o", " ">>,
    <<" ", "p", "l", "u", "s", " ">>,
    <<" ", "a", "s", " ", "w", "e", "l", "l", " ", "a", "s", " ">>,
    <<",", " ", "a", "n", "d", " ">>,
    <<" ", "&", " ">> >>

IntentNames == <<"order_inquiry", "delivery_tracking", "refund_request", "payment_history", "ticket_status">>

INTENT_KEYWORDS ==
       "order_inquiry" :> <<
           <<"o", "r", "d", "e", "r">>,
           <<"o", "r", "d", "e", "r", "e", "d">>,
           <<"p", "u", "r", "c", "h", "a", "s", "e">>,
           <<"b", "o", "u", "g", "h", "t">> >>
    @@ "delivery_tracking" :> <<
           <<"d", "e", "l", "i", "v", "e", "r", "y">>,
           <<"s", "h", "i", "p", "m", "e", "n", "t">>,
           <<"t", "r", "a", "c", "k", "i", "n", "g">>,
           <<"s", "h", "i", "p", "p", "e", "d">>,
           <<"a", "r", "r", "i", "v", "e", "d">>,
           <<"w", "h", "e", "r", "e", " ", "i", "s">> >>
    @@ "refund_request" :> <<
           <<"r", "e", "f", "u", "n", "d">>,
           <<"m", "o", "n", "e", "y", " ", "b", "a", "c", "k">>,
           <<"r", "e", "t", "u", "r", "n">> >>
    @@ "payment_history" :> <<
           <<"p", "a", "y", "m", "e", "n", "t">>,
           <<"t", "r", "a", "n", "s", "a", "c", "t", "i", "o", "n">>,
           <<"p", "a", "i", "d">>,
           <<"w", "a", "l", "l", "e", "t">> >>
    @@ "ticket_status" :> <<
           <<"t", "i", "c", "k", "e", "t">>,
           <<"s", "u", "p", "p", "o", "r", "t">>,
           <<"i", "s", "s", "u", "e">>,
           <<"c", "o", "m", "p", "l", "a", "i", "n", "t">>,
           <<"h", "e", "l", "p">> >>

\* any(kw in query_lower for kw in keywords)
HasIntent(ql, name) ==
    \E k \in 1..Len(INTENT_KEYWORDS[name]) : Contains(ql, INTENT_KEYWORDS[name][k])

\* QueryDecomposer.is_multi_intent
is_multi_intent(text) ==
    LET ql == Lower(text)
    IN  \/ \E c \in 1..Len(CONJUNCTIONS) : Contains(ql, CONJUNCTIONS[c])
        \/ Cardinality({n \in 1..Len(IntentNames) : HasIntent(ql, IntentNames[n])}) > 1

\* QueryDecomposer._intent_to_agent
intent_to_agent(name) ==
    CASE name = "order_inquiry" -> "shopcore"
      [] name = "delivery_tracking" -> "shipstream"
      [] name = "refund_request" -> "payguard"
      [] name = "payment_history" -> "payguard"
      [] name = "ticket_status" -> "caredesk"
      [] OTHER -> "shopcore"

\* the first keyword of an intent that the text contains
FirstKeyword(ql, name) ==
    INTENT_KEYWORDS[name][CHOOSE k \in 1..Len(INTENT_KEYWORDS[name]) :
        /\ Contains(ql, INTENT_KEYWORDS[name][k])
        /\ \A j \in 1..(k - 1) : ~Contains(ql, INTENT_KEYWORDS[name][j])]

\* QueryDecomposer.decompose: sub_queries, one per detected intent, in the
\* order of INTENT_KEYWORDS
RECURSIVE SubQueries(_, _)
SubQueries(ql, n) ==
    IF n > Len(IntentNames) THEN <<>>
    ELSE IF HasIntent(ql, IntentNames[n])
         THEN <<[intent |-> IntentNames[n],
                 keyword |-> FirstKeyword(ql, IntentNames[n]),
                 agent |-> intent_to_agent(IntentNames[n])]>>
                  \o SubQueries(ql, n + 1)
         ELSE SubQueries(ql, n + 1)

\* _build_dependencies without the rule of line 366-367 (caredesk on payguard)
build_dependencies_shopcore_only(sub_queries) ==
    LET agents == {sub_queries[i].agent : i \in 1..Len(sub_queries)}
    IN  [agent \in agents |->
            IF agent \in {"shipstream", "payguard", "caredesk"} /\ "shopcore" \in agents
            THEN {"shopcore"} ELSE {}]

\* QueryDecomposer._build_dependencies
build_dependencies(sub_queries) ==
    LET agents == {sub_queries[i].agent : i \in 1..Len(sub_queries)}
    IN  [agent \in agents |->
            (IF agent \in {"shipstream", "payguard", "caredesk"} /\ "shopcore" \in agents
             THEN {"shopcore"} ELSE {})
            \cup
            (IF agent = "caredesk" /\ "payguard" \in agents
             THEN {"payguard"} ELSE {})]

\* ------------------------------------------------------------------------
\* QueryPatternMatcher (cache.py) on the texts of the model: the pattern the
\* regular expressions of PATTERNS give, and the entities ENTITY_PATTERNS give
\* ------------------------------------------------------------------------
\* QueryPatternMatcher.match_pattern(QueryText[q])[0]
PatternOf ==
       1 :> "refund_status"
    @@ 2 :> "refund_status"
    @@ 3 :> "user_tickets"
    @@ 4 :> "unknown"
    @@ 5 :> "unknown"
    @@ 6 :> "order_by_product"
    @@ 7 :> "order_by_product"
    @@ 8 :> "refund_status"

\* QueryPatternMatcher.extract_entities(QueryText[q])
ExtractedOf ==
    [q \in Queries |->
        IF q = 7
        THEN <<[type |-> "product_name", value |-> "Gaming Monitor"]>>
        ELSE IF q = 8
        THEN <<[type |-> "amount", value |-> "150"]>>
        ELSE <<>>]

\* is_multi_intent and decompose on each text of the model
IsMultiIntent == [q \in Queries |-> is_multi_intent(QueryText[q])]

SubQueriesOf == [q \in Queries |-> SubQueries(Lower(QueryText[q]), 1)]

\* QueryPatternMatcher.can_handle_with_orm: pattern != UNKNOWN and 0.85 >= 0.7
can_handle_with_orm(q) == PatternOf[q] # "unknown" /\ 85 >= 70

\* ------------------------------------------------------------------------
\* analyze_query helpers (nodes.py)
\* ------------------------------------------------------------------------
\* _get_agents_for_pattern
get_agents_for_pattern(pattern) ==
    CASE pattern \in {"order_by_product", "order_by_id", "user_orders", "recent_orders"}
             -> <<"shopcore">>
      [] pattern \in {"track_shipment", "shipment_by_order"} -> <<"shopcore", "shipstream">>
      [] pattern \in {"user_transactions", "wallet_balance"} -> <<"payguard">>
      [] pattern = "refund_status" -> <<"shopcore", "payguard">>
      [] pattern = "user_tickets" -> <<"caredesk">>
      [] pattern = "ticket_by_order" -> <<"shopcore", "caredesk">>
      [] OTHER -> <<"shopcore">>

\* _get_intent_for_pattern
get_intent_for_pattern(pattern) ==
    CASE pattern \in {"order_by_product", "order_by_id", "user_orders", "recent_orders"}
             -> "order_inquiry"
      [] pattern \in {"track_shipment", "shipment_by_order"} -> "delivery_tracking"
      [] pattern \in {"user_transactions", "wallet_balance"} -> "payment_history"
      [] pattern = "refund_status" -> "refund_request"
      [] pattern \in {"user_tickets", "ticket_by_order"} -> "ticket_status"
      [] OTHER -> "general_inquiry"

\* _get_dependencies(agent, all_agents)
get_dependencies(agent, all_agents) ==
    IF agent \in {"shipstream", "payguard", "caredesk"} /\ "shopcore" \in Range(all_agents)
    THEN {"shopcore"}
    ELSE {}

\* ------------------------------------------------------------------------
\* State machine transitions (state.py)
\* ------------------------------------------------------------------------
Transition(from, to, trigger) == [from |-> from, to |-> to, trigger |-> trigger]

\* create_initial_state: state_history
InitialHistory == <<Transition("start", "listening", "session_start")>>

\* transition_to_routing
transition_to_routing(h) == Append(h, Transition("listening", "routing", "query_received"))

\* transition_to_executing
transition_to_executing(h) == Append(h, Transition("routing", "executing", "plan_created"))

\* transition_to_answering
transition_to_answering(h) ==
    Append(h, Transition("executing", "answering", "execution_complete"))

\* transition_to_error: from the current state
transition_to_error(h, previous_state) ==
    Append(h, Transition(previous_state, "error", "error_occurred"))

\* transition_to_complete: from the current state
transition_to_complete(h, previous_state) ==
    Append(h, Transition(previous_state, "complete", "response_ready"))

\* ------------------------------------------------------------------------
\* Specification of the planner alone
\* ------------------------------------------------------------------------
PlanInit ==
    /\ pc = "plan_input"
    /\ \E S \in SUBSET Agents : \E dm \in [Agents -> DepSets] :
          /\ S # {}
          /\ \A a \in Agents \ S : dm[a] = {}
          /\ required_agents = ReqList(S, dm, 1)
    /\ parallel_batches = <<>>
    /\ execution_order = <<>>
    /\ CacheInit
    /\ ThreadInit
    /\ RunIdle
    /\ MemInit
    /\ DecomposeIdle
    /\ RecoveryIdle

\* plan = create_parallel_execution_plan(required_agents)
BuildPlan ==
    /\ pc = "plan_input"
    /\ parallel_batches' = create_parallel_execution_plan(required_agents)
    /\ pc' = "plan_built"
    /\ UNCHANGED <<required_agents, execution_order>>
    /\ UNCHANGED <<cacheVars, threadVars, memVars, decomposed, recovery, filled_plan, runVars>>

\* execution_order = _determine_order(sub_queries, dependencies) for the same
\* services and the same dependency map
DetermineOrder ==
    /\ pc = "plan_built"
    /\ execution_order' = determine_order(AllAgents(required_agents),
                                          Dependencies(required_agents))
    /\ pc' = "order_built"
    /\ UNCHANGED <<required_agents, parallel_batches>>
    /\ UNCHANGED <<cacheVars, threadVars, memVars, decomposed, recovery, filled_plan, runVars>>

PlanNext == BuildPlan \/ DetermineOrder

SpecPlan == PlanInit /\ [][PlanNext]_vars

\* C1: for a well-formed acyclic requirement set, every service sits in a
\* batch whose index is strictly greater than the batch index of each of its
\* dependencies (and both are in some batch).
C1_DependencyOrder ==
    (pc = "plan_built" /\ WellFormed(required_agents)) =>
        \A i \in 1..Len(required_agents) :
            \A d \in required_agents[i].depends_on :
                /\ BatchIndex(parallel_batches, d) >= 1
                /\ BatchIndex(parallel_batches, d)
                       < BatchIndex(parallel_batches, required_agents[i].agent_name)

\* a well-formed chain of three services has been planned into three batches
C1_Witness ==
    /\ pc = "plan_built"
    /\ WellFormed(required_agents)
    /\ Len(parallel_batches) >= 3
    /\ \E i \in 1..Len(required_agents) :
           Cardinality(required_agents[i].depends_on) = 2

\* C11: for every set of services and every dependency map over them, cyclic,
\* self-referential and missing dependencies included, the execution_order of
\* the decomposer and the batches of the planner are the same sequence of
\* batches, each batch taken as a set.
C11_SameBatches ==
    pc = "order_built" => execution_order = parallel_batches

\* a dependency map that is not well-formed, ordered in a regular batch
\* followed by the batch of the remaining services
C11_Witness ==
    /\ pc = "order_built"
    /\ ~WellFormed(required_agents)
    /\ Len(execution_order) = 2
    /\ Cardinality(execution_order[2]) = 2
    /\ execution_order = parallel_batches

\* the services of the batches before batch i
Before(batches, i) == UNION {batches[j] : j \in 1..(i - 1)}

\* batches is what the rounds of the algorithm produce for reqs: at most one
\* round per service, every batch the whole ready set of its round, or, when
\* that set is empty, all the remaining services as the last batch
RoundsOK(batches, reqs) ==
    LET agents == AllAgents(reqs)
        deps == Dependencies(reqs)
    IN  /\ Len(batches) <= Cardinality(agents)
        /\ UNION {batches[i] : i \in 1..Len(batches)} = agents
        /\ \A i \in 1..Len(batches) :
              LET done == Before(batches, i)
                  ready == {a \in agents \ done : deps[a] \subseteq done}
              IN  IF ready # {}
                  THEN batches[i] = ready
                  ELSE /\ batches[i] = agents \ done
                       /\ batches[i] # {}
                       /\ i = Len(batches)

\* C12: for any requirement set, cycles, self-dependencies and missing
\* dependencies included, the plan is built in at most |services| rounds, and
\* a round with no ready service emits all the remaining services as one
\* batch, the last of the plan; the same holds of the decomposer's order.
C12_PlanTerminates ==
    /\ pc \in {"plan_built", "order_built"} =>
           RoundsOK(parallel_batches, required_agents)
    /\ pc = "order_built" => RoundsOK(execution_order, required_agents)

\* two services that wait for each other behind a first regular batch
C12_Witness ==
    /\ pc = "plan_built"
    /\ Len(parallel_batches) = 2
    /\ Cardinality(parallel_batches[2]) = 2
    /\ \A a \in parallel_batches[2] :
           ~(Dependencies(required_agents)[a] \subseteq parallel_batches[1])

\* ------------------------------------------------------------------------
\* Specification of the decomposer alone: decompose on the sub-queries of
\* every set of detected intents, then the requirements analyze_query builds
\* from them and their plan
\* ------------------------------------------------------------------------
\* decompose, line 319-326: the sub-queries of the detected intents found,
\* in the order of INTENT_KEYWORDS; kw gives the keyword detected per intent
RECURSIVE SubQueriesFor(_, _, _)
SubQueriesFor(found, kw, n) ==
    IF n > Len(IntentNames) THEN <<>>
    ELSE IF IntentNames[n] \in found
         THEN <<[intent |-> IntentNames[n],
                 keyword |-> INTENT_KEYWORDS[IntentNames[n]][kw[n]],
                 agent |-> intent_to_agent(IntentNames[n])]>>
                  \o SubQueriesFor(found, kw, n + 1)
         ELSE SubQueriesFor(found, kw, n + 1)

\* the services of a list of sub-queries
SubQueryAgents(sqs) == {sqs[i].agent : i \in 1..Len(sqs)}

DecomposeInit ==
    /\ pc = "decompose_input"
    /\ \E found \in SUBSET {IntentNames[n] : n \in 1..Len(IntentNames)} :
       \E kw \in [1..Len(IntentNames) -> 1..6] :
          /\ \A n \in 1..Len(IntentNames) :
                IF IntentNames[n] \in found
                THEN kw[n] <= Len(INTENT_KEYWORDS[IntentNames[n]])
                ELSE kw[n] = 1
          /\ decomposed = [sub_queries |-> SubQueriesFor(found, kw, 1),
                           dependencies |-> <<>>]
    /\ required_agents = <<>>
    /\ parallel_batches = <<>>
    /\ execution_order = <<>>
    /\ CacheInit
    /\ ThreadInit
    /\ RunIdle
    /\ MemInit
    /\ RecoveryIdle

\* decompose, line 329: dependencies = cls._build_dependencies(sub_queries)
BuildDependencies ==
    /\ pc = "decompose_input"
    /\ decomposed' = [decomposed EXCEPT
                         !.dependencies = build_dependencies(decomposed.sub_queries)]
    /\ pc' = "dependencies_built"
    /\ UNCHANGED <<required_agents, parallel_batches, execution_order>>
    /\ UNCHANGED <<cacheVars, threadVars, memVars, recovery, filled_plan, runVars>>

\* decompose, line 330: execution_order = cls._determine_order(...)
DecomposeOrder ==
    /\ pc = "dependencies_built"
    /\ execution_order' = determine_order(SubQueryAgents(decomposed.sub_queries),
                                          decomposed.dependencies)
    /\ pc' = "decomposed"
    /\ UNCHANGED <<required_agents, parallel_batches, decomposed, recovery, filled_plan>>
    /\ UNCHANGED <<cacheVars, threadVars, memVars, runVars>>

\* analyze_query, line 468-473: the requirements of the decomposed query, and
\* create_execution_plan on them
PlanDecomposed ==
    /\ pc = "decomposed"
    /\ LET agents == SubQueryAgents(decomposed.sub_queries)
           reqs == ReqList(agents,
                           [a \in Agents |-> IF a \in agents
                                             THEN decomposed.dependencies[a]
                                             ELSE {}], 1)
       IN  /\ required_agents' = reqs
           /\ parallel_batches' = create_parallel_execution_plan(reqs)
    /\ pc' = "decomposed_planned"
    /\ UNCHANGED <<execution_order, decomposed, recovery, filled_plan>>
    /\ UNCHANGED <<cacheVars, threadVars, memVars, runVars>>

DecomposeNext == BuildDependencies \/ DecomposeOrder \/ PlanDecomposed

SpecDecompose == DecomposeInit /\ [][DecomposeNext]_vars

\* C14: the dependencies of the decomposer follow the fixed rule for every
\* set of services: shopcore has no dependencies; every other service
\* depends on shopcore if and only if shopcore is in the set; caredesk also
\* depends on payguard when both are in the set, and nothing else is a
\* dependency; and shopcore, shipstream, caredesk are planned as
\* [[shopcore], [shipstream, caredesk]].
C14_DependencyRule ==
    pc \in {"dependencies_built", "decomposed", "decomposed_planned"} =>
        LET S == SubQueryAgents(decomposed.sub_queries)
            d == decomposed.dependencies
        IN  /\ DOMAIN d = S
            /\ "shopcore" \in S => d["shopcore"] = {}
            /\ \A a \in S \ {"shopcore"} :
                  /\ "shopcore" \in d[a] <=> "shopcore" \in S
                  /\ "payguard" \in d[a] <=> (a = "caredesk" /\ "payguard" \in S)
                  /\ d[a] \subseteq {"shopcore", "payguard"}
            /\ (pc = "decomposed_planned" /\ S = {"shopcore", "shipstream", "caredesk"})
                  => parallel_batches = <<{"shopcore"}, {"shipstream", "caredesk"}>>

\* the sub-queries of "I have a ticket about my order, has it arrived" were
\* decomposed and planned
C14_Witness ==
    /\ pc = "decomposed_planned"
    /\ decomposed.sub_queries = SubQueriesOf[6]
    /\ SubQueryAgents(decomposed.sub_queries) = {"shopcore", "shipstream", "caredesk"}
    /\ decomposed.dependencies["caredesk"] = {"shopcore"}
    /\ Len(parallel_batches) = 2

\* ------------------------------------------------------------------------
\* Specification of the cache shared by concurrent orchestration runs.
\* IntentCache holds no lock: a get or a set of one thread is a sequence of
\* dict operations, and the operations of other threads fall between them.
\* ------------------------------------------------------------------------
\* the queries of the concurrent runs
ConcQueries == {1, 3, 4}

\* each thread makes at most MaxThreadCalls calls
MaxThreadCalls == 2

Keys(c) == {c[i].key : i \in 1..Len(c)}

ConcInit ==
    /\ pc = "shared_cache"
    /\ required_agents = <<>>
    /\ parallel_batches = <<>>
    /\ execution_order = <<>>
    /\ CacheInit
    /\ ThreadInit
    /\ RunIdle
    /\ MemInit
    /\ DecomposeIdle
    /\ RecoveryIdle

Goto(t, label) == tpc' = [tpc EXCEPT ![t] = label]

\* the call of thread t returns
Return(t) ==
    /\ tpc' = [tpc EXCEPT ![t] = "idle"]
    /\ tloc' = [tloc EXCEPT ![t] = [query |-> 0, calls |-> tloc[t].calls]]

\* the call of thread t raises (KeyError, RuntimeError)
Raise(t) ==
    /\ tpc' = [tpc EXCEPT ![t] = "failed"]
    /\ UNCHANGED tloc

\* get, line 212-214: key = _hash_query(query); if key in self._cache
GetBegin(t) ==
    /\ tpc[t] = "idle"
    /\ tloc[t].calls < MaxThreadCalls
    /\ \E q \in ConcQueries :
          IF HasKey(cache, KeyOf[q])
          THEN /\ Goto(t, "get_read")
               /\ tloc' = [tloc EXCEPT ![t] =
                              [query |-> q, key |-> KeyOf[q],
                               calls |-> tloc[t].calls + 1]]
               /\ UNCHANGED misses
          ELSE /\ tpc' = tpc
               /\ tloc' = [tloc EXCEPT ![t] =
                              [query |-> 0, calls |-> tloc[t].calls + 1]]
               /\ misses' = misses + 1
    /\ UNCHANGED <<cache, now, hits, last_call, last_set, planVars, runVars, memVars, decomposed, recovery, filled_plan>>

\* get, line 215-219: cached = self._cache[key]; if not cached.is_expired()
GetRead(t) ==
    /\ tpc[t] = "get_read"
    /\ IF ~HasKey(cache, tloc[t].key)
       THEN Raise(t) /\ UNCHANGED hits
       ELSE IF ~is_expired(Lookup(cache, tloc[t].key), now)
            THEN Return(t) /\ hits' = hits + 1
            ELSE Goto(t, "get_del") /\ UNCHANGED <<tloc, hits>>
    /\ UNCHANGED <<cache, now, misses, last_call, last_set, planVars, runVars, memVars, decomposed, recovery, filled_plan>>

\* get, line 221-224: del self._cache[key]; self._misses += 1
GetDel(t) ==
    /\ tpc[t] = "get_del"
    /\ IF ~HasKey(cache, tloc[t].key)
       THEN Raise(t) /\ UNCHANGED <<cache, misses>>
       ELSE /\ cache' = DictDel(cache, tloc[t].key)
            /\ misses' = misses + 1
            /\ Return(t)
    /\ UNCHANGED <<now, hits, last_call, last_set, planVars, runVars, memVars, decomposed, recovery, filled_plan>>

\* set, line 229-232: key = _hash_query(query); if len(self._cache) >= max_size
SetBegin(t) ==
    /\ tpc[t] = "idle"
    /\ tloc[t].calls < MaxThreadCalls
    /\ \E q \in ConcQueries : \E args \in SetArgs :
          /\ tloc' = [tloc EXCEPT ![t] =
                         [query |-> q, key |-> KeyOf[q], args |-> args,
                          calls |-> tloc[t].calls + 1]]
          /\ IF IsFull(cache) THEN Goto(t, "set_min") ELSE Goto(t, "set_put")
    /\ UNCHANGED <<cacheVars, planVars, runVars, memVars, decomposed, recovery, filled_plan>>

\* set, line 233: min(self._cache, key=...) starts to iterate over the dict
SetMinBegin(t) ==
    /\ tpc[t] = "set_min"
    /\ tloc' = [tloc EXCEPT ![t] =
                   [query |-> tloc[t].query, key |-> tloc[t].key,
                    args |-> tloc[t].args, calls |-> tloc[t].calls,
                    iter |-> cache]]
    /\ Goto(t, "set_min_end")
    /\ UNCHANGED <<cacheVars, planVars, runVars, memVars, decomposed, recovery, filled_plan>>

\* set, line 233: the iteration ends.  A dict whose size changed under the
\* iteration raises RuntimeError; one whose keys changed at the same size
\* either raises (KeyError in the key function) or is iterated to its end.
SetMinEnd(t) ==
    /\ tpc[t] = "set_min_end"
    /\ LET found == /\ Goto(t, "set_del")
                    /\ tloc' = [tloc EXCEPT ![t] =
                                   [query |-> tloc[t].query, key |-> tloc[t].key,
                                    args |-> tloc[t].args, calls |-> tloc[t].calls,
                                    oldest_key |-> OldestKey(cache)]]
       IN  IF Len(cache) # Len(tloc[t].iter)
           THEN Raise(t)
           ELSE IF Keys(cache) # Keys(tloc[t].iter)
                THEN Raise(t) \/ found
                ELSE found
    /\ UNCHANGED <<cacheVars, planVars, runVars, memVars, decomposed, recovery, filled_plan>>

\* set, line 234: del self._cache[oldest_key]
SetDel(t) ==
    /\ tpc[t] = "set_del"
    /\ IF ~HasKey(cache, tloc[t].oldest_key)
       THEN Raise(t) /\ UNCHANGED cache
       ELSE /\ cache' = DictDel(cache, tloc[t].oldest_key)
            /\ Goto(t, "set_put")
            /\ UNCHANGED tloc
    /\ UNCHANGED <<now, hits, misses, last_call, last_set, planVars, runVars, memVars, decomposed, recovery, filled_plan>>

\* set, line 236-244: self._cache[key] = CachedIntent(..., utcnow(), ...)
SetPut(t) ==
    /\ tpc[t] = "set_put"
    /\ cache' = DictPut(cache, tloc[t].key, CachedIntent(tloc[t].args, now))
    /\ Return(t)
    /\ UNCHANGED <<now, hits, misses, last_call, last_set, planVars, runVars, memVars, decomposed, recovery, filled_plan>>

ConcTick ==
    /\ Tick
    /\ UNCHANGED <<cache, hits, misses, last_call, last_set>>
    /\ UNCHANGED <<planVars, threadVars, memVars, decomposed, recovery, filled_plan, runVars>>

ConcNext ==
    \/ \E t \in Threads : GetBegin(t)
    \/ \E t \in Threads : GetRead(t)
    \/ \E t \in Threads : GetDel(t)
    \/ \E t \in Threads : SetBegin(t)
    \/ \E t \in Threads : SetMinBegin(t)
    \/ \E t \in Threads : SetMinEnd(t)
    \/ \E t \in Threads : SetDel(t)
    \/ \E t \in Threads : SetPut(t)
    \/ ConcTick

SpecCacheConc == ConcInit /\ [][ConcNext]_vars

\* C10: under any interleaving of the get and set calls of concurrent runs
\* the cache never holds more than max_size entries and no call fails.
C10_AtomicInsertOrEvict ==
    /\ Len(cache) <= max_size
    /\ \A t \in Threads : tpc[t] # "failed"

\* ------------------------------------------------------------------------
\* The orchestration run: process_query (graph.py) and the nodes (nodes.py)
\* ------------------------------------------------------------------------
\* process_query is called at most MaxRuns times, one run after the other
MaxRuns == 2

\* the queries of the runs: two pattern matches that share a cache key, an
\* externally classified query, a multi-intent query and the query about the
\* order of a named product
RunQueries == {1, 2, 4, 6, 7, 8}

\* route_from_analysis: confidence < 0.2, in hundredths
ConfidenceFloor == 20

\* ThreadPoolExecutor(max_workers=4)
max_workers == 4

\* a service name get_agent_instance does not know
UnknownAgent == "billing"

\* what the external classification can answer (llm.invoke and
\* extract_json_from_response): a fault, output without a JSON object, or a
\* parsed result
LLMResults == {
    [kind |-> "raise"],
    [kind |-> "unparsed"],
    [kind |-> "parsed", intent |-> "combined_inquiry", intent_confidence |-> 90,
     required_agents |-> <<AgentRequirement("shopcore", {}),
                           AgentRequirement("payguard", {}),
                           AgentRequirement("caredesk", {"shopcore", "payguard"})>>],
    [kind |-> "parsed", intent |-> "general_inquiry", intent_confidence |-> 10,
     required_agents |-> <<AgentRequirement("shopcore", {})>>],
    [kind |-> "parsed", intent |-> "payment_history", intent_confidence |-> 20,
     required_agents |-> <<AgentRequirement("payguard", {})>>],
    [kind |-> "parsed", intent |-> "general_inquiry", intent_confidence |-> 90,
     required_agents |-> <<>>],
    [kind |-> "parsed", intent |-> "order_inquiry", intent_confidence |-> 90,
     required_agents |-> <<AgentRequirement(UnknownAgent, {})>>] }

\* what one service call can do: return rows, return no rows, return a
\* structured failure, or raise
Outcomes == {"rows", "empty", "failure", "raise"}

\* the result execute_single_agent returns for an outcome
ResultOf(agent_name, outcome) ==
    CASE outcome = "rows" ->
             [agent_name |-> agent_name, success |-> TRUE, error |-> "None", data |-> "rows"]
      [] outcome = "empty" ->
             [agent_name |-> agent_name, success |-> TRUE, error |-> "None", data |-> "empty"]
      [] outcome = "failure" ->
             [agent_name |-> agent_name, success |-> FALSE, error |-> "agent error",
              data |-> "empty"]
      [] OTHER ->
             [agent_name |-> agent_name, success |-> FALSE, error |-> "str(e)",
              data |-> "empty"]

Names(reqs) == [i \in 1..Len(reqs) |-> reqs[i].agent_name]

\* process_query: create_initial_state and graph.invoke
StartRun ==
    /\ pc \in {"idle", "responded"}
    /\ runs < MaxRuns
    /\ runs' = runs + 1
    /\ \E q \in RunQueries : user_query' = q
    /\ route' = "none"
    /\ current_state' = "listening"
    /\ state_history' = InitialHistory
    /\ intent' = ""
    /\ intent_confidence' = 0
    /\ entities' = <<>>
    /\ required_agents' = <<>>
    /\ parallel_batches' = <<>>
    /\ error' = "None"
    /\ batch_idx' = 0
    /\ call' = [a \in {} |-> "idle"]
    /\ batch_results' = <<>>
    /\ agent_results' = <<>>
    /\ agents_used' = <<>>
    /\ final_response' = <<>>
    /\ response' = [success |-> FALSE, made |-> FALSE]
    /\ execution_order' = <<>>
    /\ accumulated_context' = NoContext
    /\ context' = NoContext
    /\ call_context' = [a \in {} |-> NoContext]
    /\ attempts' = [a \in {} |-> 0]
    /\ synthesis' = "none"
    /\ pc' = "analyze"
    /\ UNCHANGED <<cacheVars, threadVars, memVars, decomposed, recovery, filled_plan>>

\* analyze_query, line 340-389: transition_to_routing, intent_cache.get and
\* the cache-hit branch
AnalyzeCacheLookup ==
    /\ pc = "analyze"
    /\ current_state' = "routing"
    /\ state_history' = transition_to_routing(state_history)
    /\ IntentCacheGet(user_query)
    /\ LET ret == GetResult(cache, KeyOf[user_query], now)
       IN  IF ret.hit
           THEN /\ intent' = ret.cached.intent
                /\ intent_confidence' = ret.cached.confidence
                /\ entities' =
                       [i \in 1..Len(ret.cached.entities) |->
                           [entity_type |->
                                IF ret.cached.entities[i].type = "product_name"
                                THEN "product_name" ELSE "order_id",
                            value |-> ret.cached.entities[i].value]]
                /\ required_agents' =
                       [i \in 1..Len(ret.cached.required_agents) |->
                           AgentRequirement(ret.cached.required_agents[i], {})]
                /\ route' = "cache_hit"
                /\ pc' = "route_analysis"
           ELSE /\ pc' = "analyze_miss"
                /\ UNCHANGED <<intent, intent_confidence, entities,
                               required_agents, route>>
    /\ UNCHANGED <<parallel_batches, execution_order, threadVars, memVars, decomposed, recovery, filled_plan, runs, user_query, error,
                   batch_idx, call, batch_results, agent_results, agents_used,
                   final_response, response,
                   accumulated_context, context, call_context, attempts,
                   synthesis>>

\* analyze_query, line 391-445: a single-intent query that matches a pattern
AnalyzePattern ==
    /\ pc = "analyze_miss"
    /\ ~IsMultiIntent[user_query]
    /\ can_handle_with_orm(user_query)
    /\ LET pattern == PatternOf[user_query]
           agents_for_pattern == get_agents_for_pattern(pattern)
           extracted == ExtractedOf[user_query]
       IN  /\ IntentCacheSet(user_query,
                  [intent |-> get_intent_for_pattern(pattern), confidence |-> 85,
                   entities |-> extracted, required_agents |-> agents_for_pattern,
                   pattern |-> pattern])
           /\ intent' = get_intent_for_pattern(pattern)
           /\ intent_confidence' = 85
           /\ entities' =
                  [i \in 1..Len(extracted) |->
                      [entity_type |->
                           IF extracted[i].type = "product_name" THEN "product_name"
                           ELSE IF extracted[i].type = "order_id" THEN "order_id"
                           ELSE "user_id",
                       value |-> extracted[i].value]]
           /\ required_agents' =
                  [i \in 1..Len(agents_for_pattern) |->
                      AgentRequirement(agents_for_pattern[i],
                          get_dependencies(agents_for_pattern[i], agents_for_pattern))]
    /\ route' = "pattern"
    /\ pc' = "route_analysis"
    /\ UNCHANGED <<parallel_batches, execution_order, threadVars, memVars, decomposed, recovery, filled_plan, runs, user_query, current_state,
                   state_history, error, batch_idx, call, batch_results,
                   agent_results, agents_used, final_response, response,
                   accumulated_context, context, call_context, attempts,
                   synthesis>>

\* analyze_query, line 447-477: multi-intent decomposition (the order of
\* list(set(...)) is taken to be the order of the sub-queries)
AnalyzeMultiIntent ==
    /\ pc = "analyze_miss"
    /\ IsMultiIntent[user_query]
    /\ LET sub_queries == SubQueriesOf[user_query]
           dependencies == build_dependencies(sub_queries)
           agents == {sub_queries[i].agent : i \in 1..Len(sub_queries)}
       IN  /\ intent' = "multi_intent"
           /\ intent_confidence' = 80
           /\ entities' = [i \in 1..Len(sub_queries) |->
                              [entity_type |-> "product_name",
                               value |-> sub_queries[i].keyword]]
           /\ required_agents' = ReqList(agents, [a \in Agents |->
                                     IF a \in agents THEN dependencies[a] ELSE {}], 1)
    /\ route' = "multi_intent"
    /\ pc' = "route_analysis"
    /\ UNCHANGED <<parallel_batches, execution_order, cacheVars, threadVars, memVars, decomposed, recovery, filled_plan, runs, user_query,
                   current_state, state_history, error, batch_idx, call,
                   batch_results, agent_results, agents_used, final_response,
                   response,
                   accumulated_context, context, call_context, attempts,
                   synthesis>>

\* analyze_query, line 479-562: external classification and its fallbacks
AnalyzeLLM ==
    /\ pc = "analyze_miss"
    /\ ~IsMultiIntent[user_query]
    /\ ~can_handle_with_orm(user_query)
    /\ \E result \in LLMResults :
          CASE result.kind = "parsed" ->
                   /\ intent' = result.intent
                   /\ intent_confidence' = result.intent_confidence
                   /\ entities' = <<>>
                   /\ required_agents' = result.required_agents
                   /\ IntentCacheSet(user_query,
                          [intent |-> result.intent,
                           confidence |-> result.intent_confidence,
                           entities |-> <<>>,
                           required_agents |-> Names(result.required_agents),
                           pattern |-> "unknown"])
                   /\ route' = "llm"
            [] result.kind = "unparsed" ->
                   /\ UNCHANGED <<intent, intent_confidence, entities,
                                  required_agents, cacheVars>>
                   /\ route' = "llm_unparsed"
            [] OTHER ->
                   /\ intent' = "general_inquiry"
                   /\ intent_confidence' = 30
                   /\ required_agents' = <<AgentRequirement("shopcore", {})>>
                   /\ UNCHANGED <<entities, cacheVars>>
                   /\ route' = "llm_failed"
    /\ pc' = "route_analysis"
    /\ UNCHANGED <<parallel_batches, execution_order, threadVars, memVars, decomposed, recovery, filled_plan, runs, user_query, current_state,
                   state_history, error, batch_idx, call, batch_results,
                   agent_results, agents_used, final_response, response,
                   accumulated_context, context, call_context, attempts,
                   synthesis>>

\* mutant of route_from_analysis: route_after_analysis of nodes.py, which
\* does not look at the required agents
route_after_analysis(err, confidence, reqs) ==
    IF err # "None" THEN "handle_error"
    ELSE IF confidence < ConfidenceFloor THEN "handle_error"
    ELSE "create_plan"

\* route_from_analysis (graph.py)
route_from_analysis(err, confidence, reqs) ==
    IF err # "None" THEN "handle_error"
    ELSE IF confidence < ConfidenceFloor \/ reqs = <<>> THEN "handle_error"
    ELSE "create_plan"

\* the conditional edge after analyze
RouteFromAnalysis ==
    /\ pc = "route_analysis"
    /\ pc' = route_from_analysis(error, intent_confidence, required_agents)
    /\ UNCHANGED <<required_agents, parallel_batches, execution_order, cacheVars, threadVars, memVars, decomposed, recovery, filled_plan, runVars>>

\* create_execution_plan (nodes.py)
CreatePlan ==
    /\ pc = "create_plan"
    /\ LET reqs == IF required_agents = <<>>
                   THEN <<AgentRequirement("shopcore", {})>>
                   ELSE required_agents
       IN  /\ required_agents' = reqs
           /\ parallel_batches' = create_parallel_execution_plan(reqs)
           /\ filled_plan' = IF route \in {"pattern", "llm"}
                             THEN [q \in DOMAIN filled_plan \cup {user_query} |->
                                      IF q = user_query
                                      THEN create_parallel_execution_plan(reqs)
                                      ELSE filled_plan[q]]
                             ELSE filled_plan
    /\ pc' = "execute"
    /\ UNCHANGED <<execution_order, cacheVars, threadVars, memVars, decomposed, recovery, runVars>>

\* context[key] = value
DictSet(ctx, key, value) ==
    [k \in DOMAIN ctx \cup {key} |-> IF k = key THEN value ELSE ctx[k]]

\* execute_agents_parallel, line 665-671: the entities of the query are put
\* into the context of the batch, the later entity of a type over the earlier
RECURSIVE EntityContext(_, _, _)
EntityContext(ctx, ents, i) ==
    IF i > Len(ents) THEN ctx
    ELSE EntityContext(
             IF ents[i].entity_type \in {"order_id", "user_id", "product_name"}
             THEN DictSet(ctx, ents[i].entity_type, ents[i].value)
             ELSE ctx,
             ents, i + 1)

\* the first record of the rows a service returns (_orm_fallback of the
\* service agents): the identifiers it carries
FirstItem(agent_name) ==
    CASE agent_name = "shopcore" -> [order_id |-> "order 1", user_id |-> "user 1"]
      [] agent_name = "shipstream" ->
             [order_id |-> "order 1", tracking_number |-> "tracking 1"]
      [] agent_name = "payguard" -> [order_id |-> "order 1"]
      [] OTHER -> [ticket_id |-> "ticket 1"]

\* f"{agent_name}_result"
ResultKey(agent_name) ==
    CASE agent_name = "shopcore" -> "shopcore_result"
      [] agent_name = "shipstream" -> "shipstream_result"
      [] agent_name = "payguard" -> "payguard_result"
      [] agent_name = "caredesk" -> "caredesk_result"
      [] OTHER -> "unknown_result"

\* result.get("success") and result.get("data"), a non-empty list
HasRows(result) == result.success /\ result.data = "rows"

\* execute_agents_parallel, line 682-691: what the accumulation loop writes
\* into the local dict context
RECURSIVE FoldContext(_, _, _)
FoldContext(ctx, results, i) ==
    IF i > Len(results) THEN ctx
    ELSE LET first_item == FirstItem(results[i].agent_name)
             c1 == IF HasRows(results[i]) /\ "order_id" \in DOMAIN first_item
                   THEN DictSet(ctx, "order_id", first_item["order_id"])
                   ELSE ctx
             c2 == IF HasRows(results[i]) /\ "user_id" \in DOMAIN first_item
                   THEN DictSet(c1, "user_id", first_item["user_id"])
                   ELSE c1
         IN  FoldContext(c2, results, i + 1)

\* execute_agents_parallel, line 694: what the accumulation loop writes into
\* state["accumulated_context"]
RECURSIVE FoldAccumulated(_, _, _)
FoldAccumulated(acc, results, i) ==
    IF i > Len(results) THEN acc
    ELSE FoldAccumulated(
             IF HasRows(results[i])
             THEN DictSet(acc, ResultKey(results[i].agent_name), "data")
             ELSE acc,
             results, i + 1)

\* execute_agents_parallel, line 641-657: transition_to_executing
ExecuteBegin ==
    /\ pc = "execute"
    /\ current_state' = "executing"
    /\ state_history' = transition_to_executing(state_history)
    /\ call' = [a \in AllAgents(required_agents) |-> "idle"]
    /\ batch_idx' = 1
    /\ pc' = "batch_submit"
    /\ UNCHANGED <<required_agents, parallel_batches, execution_order, cacheVars, threadVars, memVars, decomposed, recovery, filled_plan,
                   runs, user_query, route, intent, intent_confidence, entities,
                   error, batch_results, agent_results, agents_used,
                   final_response, response,
                   accumulated_context, context, call_context, attempts,
                   synthesis>>

\* execute_agents_parallel, line 659-674, and execute_batch_parallel, line
\* 734-736: the context of the batch is built and every agent of the batch
\* is submitted
SubmitBatch ==
    /\ pc = "batch_submit"
    /\ call' = [a \in DOMAIN call |->
                   IF a \in parallel_batches[batch_idx] THEN "submitted" ELSE call[a]]
    /\ batch_results' = <<>>
    /\ pc' = "batch_wait"
    /\ context' = EntityContext(accumulated_context, entities, 1)
    /\ UNCHANGED <<required_agents, parallel_batches, execution_order, cacheVars, threadVars, memVars, decomposed, recovery, filled_plan,
                   runs, user_query, route, current_state, state_history, intent,
                   intent_confidence, entities, error, batch_idx, agent_results,
                   agents_used, final_response, response,
                   accumulated_context, call_context, attempts, synthesis>>

\* a worker thread of the pool starts execute_single_agent(agent)
CallStart(a) ==
    /\ pc = "batch_wait"
    /\ call[a] = "submitted"
    /\ Cardinality({b \in DOMAIN call : call[b] = "running"}) < max_workers
    /\ call' = [call EXCEPT ![a] = "running"]
    /\ call_context' = [b \in DOMAIN call_context \cup {a} |->
                            IF b = a THEN context ELSE call_context[b]]
    /\ attempts' = [b \in DOMAIN attempts \cup {a} |->
                        IF b = a
                        THEN (IF a \in DOMAIN attempts THEN attempts[a] ELSE 0) + 1
                        ELSE attempts[b]]
    /\ UNCHANGED <<pc, required_agents, parallel_batches, execution_order, cacheVars, threadVars, memVars, decomposed, recovery, filled_plan,
                   runs, user_query, route, current_state, state_history, intent,
                   intent_confidence, entities, error, batch_idx, batch_results,
                   agent_results, agents_used, final_response, response,
                   accumulated_context, context, synthesis>>

\* mutant of CallReturn: execute_single_agent without its except clause; the
\* fault comes out of future.result() and ends the node
CallReturnPropagate(a) ==
    /\ pc = "batch_wait"
    /\ call[a] = "running"
    /\ \E outcome \in Outcomes :
          /\ a \notin Agents => outcome = "raise"
          /\ IF outcome = "raise"
             THEN pc' = "end" /\ UNCHANGED batch_results
             ELSE /\ batch_results' = Append(batch_results, ResultOf(a, outcome))
                  /\ UNCHANGED pc
    /\ call' = [call EXCEPT ![a] = "returned"]
    /\ UNCHANGED <<required_agents, parallel_batches, execution_order, cacheVars, threadVars, memVars, decomposed, recovery, filled_plan,
                   runs, user_query, route, current_state, state_history, intent,
                   intent_confidence, entities, error, batch_idx, agent_results,
                   agents_used, final_response, response,
                   accumulated_context, context, call_context, attempts,
                   synthesis>>

\* execute_single_agent(agent) returns: the result of agent.execute, or the
\* failed result its except clause builds; as_completed hands it to the loop
CallReturn(a) ==
    /\ pc = "batch_wait"
    /\ call[a] = "running"
    /\ \E outcome \in Outcomes :
          /\ a \notin Agents => outcome = "raise"
          /\ batch_results' = Append(batch_results, ResultOf(a, outcome))
    /\ call' = [call EXCEPT ![a] = "returned"]
    /\ UNCHANGED <<pc, required_agents, parallel_batches, execution_order, cacheVars, threadVars, memVars, decomposed, recovery, filled_plan,
                   runs, user_query, route, current_state, state_history, intent,
                   intent_confidence, entities, error, batch_idx, agent_results,
                   agents_used, final_response, response,
                   accumulated_context, context, call_context, attempts,
                   synthesis>>

\* mutant of BatchDone: the loop goes on as soon as one call has returned
BatchDoneAny(batch) == \E a \in batch : call[a] = "returned"

\* the with block of execute_batch_parallel ends: every future is done
BatchDone(batch) == \A a \in batch : call[a] = "returned"

\* execute_agents_parallel, line 676-699: the results of the batch are
\* accumulated; the loop goes to the next batch or the node returns
JoinBatch ==
    /\ pc = "batch_wait"
    /\ BatchDone(parallel_batches[batch_idx])
    /\ agent_results' = agent_results \o batch_results
    /\ IF batch_idx < Len(parallel_batches)
       THEN /\ batch_idx' = batch_idx + 1
            /\ pc' = "batch_submit"
            /\ UNCHANGED agents_used
       ELSE /\ agents_used' = Names(agent_results \o batch_results)
            /\ pc' = "route_execution"
            /\ UNCHANGED batch_idx
    /\ context' = FoldContext(context, batch_results, 1)
    /\ accumulated_context' = FoldAccumulated(accumulated_context, batch_results, 1)
    /\ UNCHANGED <<required_agents, parallel_batches, execution_order, cacheVars, threadVars, memVars, decomposed, recovery, filled_plan,
                   runs, user_query, route, current_state, state_history, intent,
                   intent_confidence, entities, error, call, batch_results,
                   final_response, response,
                   call_context, attempts, synthesis>>

\* mutant of route_from_execution: all() in place of any()
route_from_execution_all(err, results) ==
    IF err # "None" THEN "handle_error"
    ELSE IF results = <<>> THEN "handle_error"
    ELSE IF ~(\A i \in 1..Len(results) : results[i].success) THEN "handle_error"
    ELSE "synthesize"

\* route_from_execution (graph.py)
route_from_execution(err, results) ==
    IF err # "None" THEN "handle_error"
    ELSE IF results = <<>> THEN "handle_error"
    ELSE IF ~(\E i \in 1..Len(results) : results[i].success) THEN "handle_error"
    ELSE "synthesize"

\* the conditional edge after execute
RouteFromExecution ==
    /\ pc = "route_execution"
    /\ pc' = route_from_execution(error, agent_results)
    /\ UNCHANGED <<required_agents, parallel_batches, execution_order, cacheVars, threadVars, memVars, decomposed, recovery, filled_plan, runVars>>

\* extract_relevant_data: the services with a successful, non-empty result
RelevantData(results) ==
    {results[i].agent_name : i \in {j \in 1..Len(results) :
        results[j].success /\ results[j].data = "rows"}}

\* the line generate_fallback_response writes for an item of a service
FallbackLine(agent_name) ==
    CASE agent_name = "shopcore" -> "Order ...: status - $total_amount"
      [] agent_name = "shipstream" -> "Shipment: status at current_location"
      [] agent_name = "payguard" -> "Transaction: type - $amount (status)"
      [] OTHER -> "Ticket: status - Assigned to assigned_to"

\* the lines for relevant_data, in the order of its keys (the order of
\* agent_results)
RECURSIVE FallbackParts(_, _)
FallbackParts(results, i) ==
    IF i > Len(results) THEN <<>>
    ELSE (IF HasRows(results[i]) THEN <<FallbackLine(results[i].agent_name)>>
          ELSE <<>>) \o FallbackParts(results, i + 1)

\* generate_fallback_response(relevant_data)
generate_fallback_response(results) ==
    <<"Based on our records:">> \o FallbackParts(results, 1)

\* mutant of Synthesize: a failed synthesis is handled as an error of the run
SynthesizeError ==
    /\ pc = "synthesize"
    /\ current_state' = "complete"
    /\ IF RelevantData(agent_results) = {}
       THEN /\ final_response' = <<"no relevant information">>
            /\ synthesis' = "skipped"
            /\ state_history' = transition_to_complete(
                                    transition_to_answering(state_history), "answering")
       ELSE \E llm \in {"ok", "raise"} :
               /\ synthesis' = llm
               /\ final_response' =
                      IF llm = "ok" THEN <<"response.content">> ELSE <<"error apology">>
               /\ state_history' =
                      IF llm = "ok"
                      THEN transition_to_complete(
                               transition_to_answering(state_history), "answering")
                      ELSE transition_to_complete(
                               transition_to_error(
                                   transition_to_answering(state_history),
                                   "answering"), "error")
    /\ pc' = "end"
    /\ UNCHANGED <<required_agents, parallel_batches, execution_order, cacheVars, threadVars, memVars, decomposed, recovery, filled_plan,
                   runs, user_query, route, intent, intent_confidence, entities,
                   error, batch_idx, call, batch_results, agent_results,
                   agents_used, response,
                   accumulated_context, context, call_context, attempts>>

\* synthesize_response (nodes.py)
Synthesize ==
    /\ pc = "synthesize"
    /\ current_state' = "complete"
    /\ state_history' =
           transition_to_complete(transition_to_answering(state_history), "answering")
    /\ IF RelevantData(agent_results) = {}
       THEN /\ final_response' = <<"no relevant information">>
            /\ synthesis' = "skipped"
       ELSE \E llm \in {"ok", "raise"} :
               /\ synthesis' = llm
               /\ final_response' =
                      IF llm = "ok" THEN <<"response.content">>
                      ELSE generate_fallback_response(agent_results)
    /\ pc' = "end"
    /\ UNCHANGED <<required_agents, parallel_batches, execution_order, cacheVars, threadVars, memVars, decomposed, recovery, filled_plan,
                   runs, user_query, route, intent, intent_confidence, entities,
                   error, batch_idx, call, batch_results, agent_results,
                   agents_used, response,
                   accumulated_context, context, call_context, attempts>>

\* mutant of HandleErrorHistory: the error transition is logged, the run is
\* not completed
HandleErrorHistoryNoComplete(h, previous_state) == transition_to_error(h, previous_state)

\* handle_error: transition_to_error, then transition_to_complete
HandleErrorHistory(h, previous_state) ==
    transition_to_complete(transition_to_error(h, previous_state), "error")

\* handle_error (nodes.py): state.get("error", ...) is the None of the
\* initial state, and transition_to_error stores it back
HandleError ==
    /\ pc = "handle_error"
    /\ current_state' = "complete"
    /\ state_history' = HandleErrorHistory(state_history, current_state)
    /\ error' = error
    /\ final_response' = <<"error apology">>
    /\ pc' = "end"
    /\ UNCHANGED <<required_agents, parallel_batches, execution_order, cacheVars, threadVars, memVars, decomposed, recovery, filled_plan,
                   runs, user_query, route, intent, intent_confidence, entities,
                   batch_idx, call, batch_results, agent_results, agents_used,
                   response,
                   accumulated_context, context, call_context, attempts,
                   synthesis>>

\* process_query, line 231-253: graph.invoke returned, the response is built
Respond ==
    /\ pc = "end"
    /\ response' = [success |-> TRUE, made |-> TRUE, response |-> final_response,
                    error |-> "absent", agents_used |-> agents_used]
    /\ pc' = "responded"
    /\ UNCHANGED <<required_agents, parallel_batches, execution_order, cacheVars, threadVars, memVars, decomposed, recovery, filled_plan,
                   runs, user_query, route, current_state, state_history, intent,
                   intent_confidence, entities, error, batch_idx, call,
                   batch_results, agent_results, agents_used, final_response,
                   accumulated_context, context, call_context, attempts,
                   synthesis>>

\* time passes between two runs
RunTick ==
    /\ pc \in {"idle", "responded"}
    /\ Tick
    /\ UNCHANGED <<cache, hits, misses, last_call, last_set>>
    /\ UNCHANGED <<planVars, threadVars, memVars, decomposed, recovery, filled_plan, runVars>>

Init ==
    /\ pc = "idle"
    /\ required_agents = <<>>
    /\ parallel_batches = <<>>
    /\ execution_order = <<>>
    /\ CacheInit
    /\ ThreadInit
    /\ RunIdle
    /\ MemInit
    /\ DecomposeIdle
    /\ RecoveryIdle

\* the steps of a run
RunStep ==
    \/ AnalyzeCacheLookup
    \/ AnalyzePattern
    \/ AnalyzeMultiIntent
    \/ AnalyzeLLM
    \/ RouteFromAnalysis
    \/ CreatePlan
    \/ ExecuteBegin
    \/ SubmitBatch
    \/ \E a \in DOMAIN call : CallStart(a)
    \/ \E a \in DOMAIN call : CallReturn(a)
    \/ JoinBatch
    \/ RouteFromExecution
    \/ Synthesize
    \/ HandleError
    \/ Respond

Next == StartRun \/ RunStep \/ RunTick

Spec == Init /\ [][Next]_vars

\* the runs are scheduled: a run that can take a step takes one (in
\* particular every service call that was started returns)
FairSpec == Spec /\ WF_vars(RunStep)

\* the states a run has logged so far
LoggedStates == [i \in 1..Len(state_history) |-> state_history[i].to]

\* the run has left the batch loop of execute_agents_parallel
Executed == batch_idx > 0 /\ pc \in {"route_execution", "synthesize", "handle_error",
                                     "end", "responded"}

\* C2: no call of a later batch is submitted or started before every call of
\* every earlier batch has returned.
C2_BatchBarrier ==
    \A i \in 1..Len(parallel_batches) : \A j \in 1..Len(parallel_batches) :
        i < j =>
            \A a \in parallel_batches[j] \cap DOMAIN call :
                call[a] # "idle" =>
                    \A b \in parallel_batches[i] : call[b] = "returned"

\* plan [[shopcore, payguard], [caredesk]]: payguard returned first,
\* shopcore failed, and caredesk is running
C2_Witness ==
    /\ pc = "batch_wait"
    /\ Len(parallel_batches) = 2
    /\ parallel_batches[1] = {"shopcore", "payguard"}
    /\ call["caredesk"] = "running"
    /\ Len(agent_results) = 2
    /\ agent_results[1].agent_name = "payguard"
    /\ ~agent_results[2].success

\* C3: once the execute node has returned, every service of the plan was
\* invoked and has exactly one recorded result, and the result recorded for
\* a call that raised is a failed one with its error text.
C3_FaultIsolated ==
    /\ Executed =>
          \A a \in AllAgents(required_agents) :
              /\ call[a] = "returned"
              /\ Cardinality({i \in 1..Len(agent_results) :
                                  agent_results[i].agent_name = a}) = 1
    /\ \A i \in 1..Len(agent_results) :
          agent_results[i].error # "None" => ~agent_results[i].success
    /\ (batch_idx > 0 /\ ~Executed) => pc \in {"batch_submit", "batch_wait"}

\* shopcore raised in the first batch; its sibling payguard and caredesk of
\* the next batch have their results
C3_Witness ==
    /\ pc = "route_execution"
    /\ Len(agent_results) = 3
    /\ agent_results[1] = ResultOf("shopcore", "raise")
    /\ agent_results[2].agent_name = "payguard"
    /\ agent_results[3].agent_name = "caredesk"
    /\ agent_results[3].success

\* the three sequences of states a run may log
RunPaths == {
    <<"listening", "routing", "executing", "answering", "complete">>,
    <<"listening", "routing", "error", "complete">>,
    <<"listening", "routing", "executing", "error", "complete">> }

\* the log of a run: each transition starts where the previous one ended,
\* nothing follows complete, and a finished run logged one of RunPaths
HistoryOK ==
    /\ \A i \in 2..Len(state_history) :
          /\ state_history[i].from = state_history[i - 1].to
          /\ state_history[i - 1].to # "complete"
          /\ state_history[i - 1].to = "error" => state_history[i].to = "complete"
    /\ pc \in {"end", "responded"} =>
          /\ LoggedStates \in RunPaths
          /\ current_state = "complete"
    /\ pc \notin {"idle", "end", "responded"} =>
          /\ \E path \in RunPaths : LoggedStates = SubSeq(path, 1, Len(state_history))
          /\ current_state = state_history[Len(state_history)].to
          /\ current_state # "complete"

PassedError == \E i \in 1..Len(state_history) : state_history[i].to = "error"

\* C5: the response has success = false and a non-empty error exactly when
\* the run passed through Error; otherwise success = true and no error.
C5_ErrorResponse ==
    pc = "responded" =>
        IF PassedError
        THEN ~response.success /\ response.error \notin {"absent", "None", ""}
        ELSE response.success /\ response.error \in {"absent", "None"}

\* C6: after Executing the run goes to Error exactly when every service call
\* of the plan failed, and to Answering when at least one succeeded.
C6_PartialFailure ==
    Executed /\ pc # "route_execution" =>
        LET all_failed == \A i \in 1..Len(agent_results) : ~agent_results[i].success
        IN  /\ Len(agent_results) = Cardinality(AllAgents(required_agents))
            /\ pc = "handle_error" <=> (all_failed /\ current_state = "executing")
            /\ pc = "synthesize" <=> (~all_failed /\ current_state = "executing")
            /\ pc \in {"end", "responded"} =>
                  /\ all_failed <=> LoggedStates =
                         <<"listening", "routing", "executing", "error", "complete">>
                  /\ ~all_failed <=> LoggedStates =
                         <<"listening", "routing", "executing", "answering", "complete">>

\* the only success is in the last batch, after failures in the first
C6_Witness ==
    /\ pc = "synthesize"
    /\ Len(agent_results) = 3
    /\ ~agent_results[1].success
    /\ ~agent_results[2].success
    /\ agent_results[3].success

\* what route_from_analysis sends to Error
Ambiguous == intent_confidence < ConfidenceFloor \/ required_agents = <<>>

\* C7: after Routing the run goes to Error exactly when the confidence is
\* below the floor or no service was identified; then no service is invoked
\* in the run; otherwise the run is planned and executed.
C7_RoutingError ==
    pc \notin {"idle", "analyze", "analyze_miss", "route_analysis"} =>
        IF Ambiguous
        THEN /\ pc \in {"handle_error", "end", "responded"}
             /\ batch_idx = 0
             /\ DOMAIN call = {}
             /\ agent_results = <<>>
             /\ pc # "handle_error" => LoggedStates =
                    <<"listening", "routing", "error", "complete">>
        ELSE /\ pc = "handle_error" => batch_idx > 0
             /\ pc \in {"end", "responded"} =>
                   /\ LoggedStates[3] = "executing"
                   /\ \A a \in AllAgents(required_agents) : call[a] = "returned"

\* a confident classification that names no service has ended in Error
C7_Witness ==
    /\ pc = "responded"
    /\ intent_confidence >= ConfidenceFloor
    /\ required_agents = <<>>
    /\ LoggedStates = <<"listening", "routing", "error", "complete">>

\* the identifiers execute_agents_parallel is to carry from one batch to the
\* next
Identifiers == {"order_id", "user_id", "tracking_number", "ticket_id"}

\* C13: when a service of batch i succeeds and the first record of its data
\* carries an identifier of which no entity was extracted from the query, the
\* context handed to every call of every later batch holds that identifier
\* under its own key.
C13_ContextPropagation ==
    \A i \in 1..Len(parallel_batches) : \A j \in 1..Len(parallel_batches) :
        i < j =>
            \A n \in 1..Len(agent_results) :
                (agent_results[n].agent_name \in parallel_batches[i]
                    /\ HasRows(agent_results[n])) =>
                    LET first_item == FirstItem(agent_results[n].agent_name)
                    IN  \A k \in Identifiers \cap DOMAIN first_item :
                            (\A e \in 1..Len(entities) : entities[e].entity_type # k) =>
                                \A c \in parallel_batches[j] \cap DOMAIN call_context :
                                    /\ k \in DOMAIN call_context[c]
                                    /\ call_context[c][k] = first_item[k]

\* C15: the query about the order of a named product, not in the cache, is
\* routed by the pattern-match path: no external classification, and the
\* cache is still empty when routing finishes.
C15_PatternPathScenario ==
    (pc = "route_analysis" /\ user_query = 7 /\ runs = 1) =>
        /\ can_handle_with_orm(7)
        /\ route = "pattern"
        /\ cache = <<>>

\* C16: when the synthesis call fails the run still goes from Answering to
\* Complete, never to Error, and the final response is the template built
\* from the relevant data.
C16_SynthesisFallback ==
    synthesis = "raise" =>
        /\ pc \in {"end", "responded"}
        /\ current_state = "complete"
        /\ LoggedStates = <<"listening", "routing", "executing", "answering", "complete">>
        /\ final_response = generate_fallback_response(agent_results)
        /\ Len(final_response) = 1 + Cardinality(RelevantData(agent_results))

\* the synthesis failed over the rows of two services, one other call failed
C16_Witness ==
    /\ synthesis = "raise"
    /\ pc = "responded"
    /\ Len(agent_results) = 3
    /\ Len(response.response) = 3

\* C17: when the external classification fails, by a fault or by output that
\* does not parse, routing falls back to a non-empty service set and the run
\* goes on to execution, not to Error.
C17_ClassificationFallback ==
    (route \in {"llm_failed", "llm_unparsed"} /\ pc # "route_analysis") =>
        /\ required_agents # <<>>
        /\ pc = "handle_error" => batch_idx > 0
        /\ pc \in {"end", "responded"} => LoggedStates[3] = "executing"

\* ErrorRecovery.MAX_RETRIES
MAX_RETRIES == 2

\* C18: a result is recorded as failed only after the normal call and
\* MAX_RETRIES recovery attempts of the service have all failed.
C18_RetryBeforeFailure ==
    \A n \in 1..Len(agent_results) :
        ~agent_results[n].success =>
            attempts[agent_results[n].agent_name] = 1 + MAX_RETRIES

\* ------------------------------------------------------------------------
\* Context window manager and session store (context.py)
\* ------------------------------------------------------------------------
\* ContextWindowManager.MAX_CONTEXT_TOKENS (4000 in the source)
MAX_CONTEXT_TOKENS == 4

\* ContextWindowManager.MAX_FULL_MESSAGES (5 in the source)
MAX_FULL_MESSAGES == 2

\* SessionMemoryStore.SESSION_TTL (24 hours in the source), in ticks
SESSION_TTL == 2

\* SessionMemoryStore.MAX_SESSIONS (1000 in the source)
MAX_SESSIONS == 2

\* at most MaxMemCalls calls are made on the store and its managers
MaxMemCalls == 4

\* the session ids of the callers
SessionIds == {"s1", "s2", "s3"}

\* a text of n characters
Text(n) == [i \in 1..n |-> "x"]

\* the contents handed to add_message
Contents == {Text(5), Text(13)}

\* ContextWindowManager.__init__
ContextWindowManager(session_id, t) ==
    [session_id |-> session_id, messages |-> <<>>, entities |-> <<>>,
     summaries |-> <<>>, current_token_count |-> 0, last_activity |-> t]

\* sum(m.get("token_estimate", 0) for m in messages)
RECURSIVE SumEstimates(_)
SumEstimates(messages) ==
    IF messages = <<>> THEN 0
    ELSE messages[1].token_estimate + SumEstimates(Tail(messages))

\* ContextWindowManager._create_summary: the first user message is the
\* intent of the summary
create_summary(messages) ==
    LET user_messages == SelectSeq(messages, LAMBDA m : m.role = "user")
    IN  [user_intent |-> IF user_messages # <<>> THEN user_messages[1].content ELSE <<>>,
         key_findings |-> "Conversation summarized for token optimization"]

\* _optimize_context that never trims
optimize_context_off(ctx) == ctx

\* _optimize_context that summarises the old messages and keeps them
optimize_context_keep(ctx) ==
    IF ctx.current_token_count <= MAX_CONTEXT_TOKENS THEN ctx
    ELSE IF Len(ctx.messages) > MAX_FULL_MESSAGES
         THEN [ctx EXCEPT !.summaries = Append(@, create_summary(
                              SubSeq(ctx.messages, 1,
                                     Len(ctx.messages) - MAX_FULL_MESSAGES)))]
         ELSE ctx

\* ContextWindowManager._optimize_context
optimize_context(ctx) ==
    IF ctx.current_token_count <= MAX_CONTEXT_TOKENS THEN ctx
    ELSE IF Len(ctx.messages) > MAX_FULL_MESSAGES
         THEN LET old_messages == SubSeq(ctx.messages, 1,
                                         Len(ctx.messages) - MAX_FULL_MESSAGES)
                  messages == SubSeq(ctx.messages,
                                     Len(ctx.messages) - MAX_FULL_MESSAGES + 1,
                                     Len(ctx.messages))
              IN  [ctx EXCEPT !.messages = messages,
                              !.summaries = Append(@, create_summary(old_messages)),
                              !.current_token_count = SumEstimates(messages)]
         ELSE ctx

\* ContextWindowManager.add_message at time t
add_message(ctx, role, content, t) ==
    LET token_estimate == Len(content) \div 4
        message == [role |-> role, content |-> content,
                    token_estimate |-> token_estimate]
    IN  optimize_context(
            [ctx EXCEPT !.messages = Append(@, message),
                        !.current_token_count = @ + token_estimate,
                        !.last_activity = t])

\* the position of the session in the dict (0 when it is not there)
SessionIndex(sess, session_id) ==
    IF \E i \in 1..Len(sess) : sess[i].session_id = session_id
    THEN CHOOSE i \in 1..Len(sess) : sess[i].session_id = session_id
    ELSE 0

\* sorted(self._sessions.items(), key=last_activity)[:k] removed: the sort is
\* stable, so of equally old sessions the first of the dict goes first
RECURSIVE RemoveOldest(_, _)
RemoveOldest(sess, k) ==
    IF k <= 0 \/ sess = <<>> THEN sess
    ELSE LET oldest == CHOOSE i \in 1..Len(sess) :
                 /\ \A j \in 1..Len(sess) : sess[i].last_activity <= sess[j].last_activity
                 /\ \A j \in 1..(i - 1) : sess[j].last_activity > sess[i].last_activity
         IN  RemoveOldest(SubSeq(sess, 1, oldest - 1)
                              \o SubSeq(sess, oldest + 1, Len(sess)), k - 1)

\* the sessions _cleanup_expired leaves at time t after its first loop
Unexpired(sess, t) ==
    SelectSeq(sess, LAMBDA ctx : ~(t - ctx.last_activity > SESSION_TTL))

\* SessionMemoryStore._cleanup_expired at time t
cleanup_expired(sess, t) ==
    LET kept == Unexpired(sess, t)
    IN  IF Len(kept) > MAX_SESSIONS
        THEN RemoveOldest(kept, Len(kept) - MAX_SESSIONS)
        ELSE kept

\* the number of calls made so far
MemCalls == IF mem_call.op = "none" THEN 0 ELSE mem_call.n

\* session_store.get_or_create(session_id)
GetOrCreate ==
    /\ MemCalls < MaxMemCalls
    /\ \E session_id \in SessionIds :
          LET cleaned == cleanup_expired(sessions, now)
          IN  /\ sessions' = IF SessionIndex(cleaned, session_id) = 0
                             THEN Append(cleaned, ContextWindowManager(session_id, now))
                             ELSE cleaned
              /\ mem_call' = [op |-> "get_or_create", session_id |-> session_id,
                              before |-> sessions, at |-> now, n |-> MemCalls + 1]
    /\ UNCHANGED <<planVars, cacheVars, threadVars, decomposed, recovery, filled_plan, runVars>>

\* add_message(role, content) on the manager of a session of the store
AddMessage ==
    /\ MemCalls < MaxMemCalls
    /\ \E i \in 1..Len(sessions) : \E role \in {"user", "assistant"} :
       \E content \in Contents :
          /\ sessions' = [sessions EXCEPT ![i] = add_message(@, role, content, now)]
          /\ mem_call' = [op |-> "add_message", session_id |-> sessions[i].session_id,
                          before |-> sessions[i], content |-> content,
                          n |-> MemCalls + 1]
    /\ UNCHANGED <<planVars, cacheVars, threadVars, decomposed, recovery, filled_plan, runVars>>

MemNext == GetOrCreate \/ AddMessage \/ DoTick

SpecMemory == CacheSpecInit /\ [][MemNext]_vars

\* C19: an add_message call that leaves the running total above the budget
\* while more than MAX_FULL_MESSAGES messages are held appends exactly one
\* summary, leaves exactly the MAX_FULL_MESSAGES most recent messages, and
\* sets the running total to the sum of their estimates.
C19_Compaction ==
    mem_call.op = "add_message" =>
        LET before == mem_call.before
            ctx == sessions[SessionIndex(sessions, mem_call.session_id)]
            total == before.current_token_count + Len(mem_call.content) \div 4
            held == Len(before.messages) + 1
        IN  (total > MAX_CONTEXT_TOKENS /\ held > MAX_FULL_MESSAGES) =>
                /\ Len(ctx.summaries) = Len(before.summaries) + 1
                /\ Len(ctx.messages) = MAX_FULL_MESSAGES
                /\ ctx.messages[MAX_FULL_MESSAGES].content = mem_call.content
                /\ \A i \in 1..(MAX_FULL_MESSAGES - 1) :
                      ctx.messages[i] = before.messages[held - MAX_FULL_MESSAGES + i]
                /\ ctx.current_token_count = SumEstimates(ctx.messages)

\* an add_message call compacted a session that had been over budget with
\* no more than MAX_FULL_MESSAGES messages held
C19_Witness ==
    /\ mem_call.op = "add_message"
    /\ mem_call.before.current_token_count > MAX_CONTEXT_TOKENS
    /\ Len(mem_call.before.messages) = MAX_FULL_MESSAGES
    /\ LET ctx == sessions[SessionIndex(sessions, mem_call.session_id)]
       IN  /\ Len(ctx.summaries) = 1
           /\ Len(ctx.messages) = MAX_FULL_MESSAGES
           /\ ctx.current_token_count < mem_call.before.current_token_count

\* C20: after a get_or_create call the store holds at most MAX_SESSIONS
\* sessions, and a session removed to respect the cap was not more recently
\* active than a session that was kept.
C20_SessionCap ==
    mem_call.op = "get_or_create" =>
        /\ Len(sessions) <= MAX_SESSIONS
        /\ LET kept == Unexpired(mem_call.before, mem_call.at)
           IN  \A i \in 1..Len(kept) : \A j \in 1..Len(kept) :
                  (/\ SessionIndex(sessions, kept[i].session_id) = 0
                   /\ SessionIndex(sessions, kept[j].session_id) # 0)
                      => kept[i].last_activity <= kept[j].last_activity

MAX_ENTITIES == 2

\* the keys f"{entity_type}:{entity_id}" of the callers
EntityKeys == {"order", "user"} \X {"1", "2"}

\* ContextWindowManager.add_entity on the keys of self.entities: assigning
\* to a key the OrderedDict holds leaves it where it is, a new key goes last;
\* popitem(last=False) removes the first key
add_entity(ents, key) ==
    LET put == IF \E i \in 1..Len(ents) : ents[i] = key THEN ents
               ELSE Append(ents, key)
    IN  IF Len(put) > MAX_ENTITIES THEN Tail(put) ELSE put

\* ContextWindowManager.get_entity on the keys of self.entities:
\* move_to_end(key) when the key is held
get_entity(ents, key) ==
    IF \E i \in 1..Len(ents) : ents[i] = key
    THEN Append(SelectSeq(ents, LAMBDA k : k # key), key)
    ELSE ents

\* a manager session_store.get_or_create has just made
EntityInit ==
    /\ pc = "entities"
    /\ required_agents = <<>>
    /\ parallel_batches = <<>>
    /\ execution_order = <<>>
    /\ CacheInit
    /\ ThreadInit
    /\ RunIdle
    /\ DecomposeIdle
    /\ RecoveryIdle
    /\ sessions = <<ContextWindowManager("s1", 0)>>
    /\ mem_call = [op |-> "get_or_create", session_id |-> "s1", before |-> <<>>,
                   at |-> 0, n |-> 0, uses |-> <<>>]

\* add_entity(entity_type, entity_id) on the manager; uses lists the keys
\* used so far, the latest last
AddEntity ==
    /\ MemCalls < MaxMemCalls
    /\ \E key \in EntityKeys :
          /\ sessions' = [sessions EXCEPT ![1].entities = add_entity(@, key)]
          /\ mem_call' = [op |-> "add_entity", session_id |-> "s1", key |-> key,
                          before |-> sessions[1].entities,
                          used_before |-> mem_call.uses,
                          uses |-> Append(mem_call.uses, key),
                          n |-> MemCalls + 1]
    /\ UNCHANGED <<planVars, cacheVars, threadVars, decomposed, recovery, filled_plan, runVars>>

\* get_entity(entity_type, entity_id) on the manager
GetEntity ==
    /\ MemCalls < MaxMemCalls
    /\ \E key \in EntityKeys :
          LET found == \E i \in 1..Len(sessions[1].entities) :
                           sessions[1].entities[i] = key
          IN  /\ sessions' = [sessions EXCEPT ![1].entities = get_entity(@, key)]
              /\ mem_call' = [op |-> "get_entity", session_id |-> "s1", key |-> key,
                              before |-> sessions[1].entities,
                              used_before |-> mem_call.uses,
                              uses |-> IF found THEN Append(mem_call.uses, key)
                                       ELSE mem_call.uses,
                              n |-> MemCalls + 1]
    /\ UNCHANGED <<planVars, cacheVars, threadVars, decomposed, recovery, filled_plan, runVars>>

EntityNext == AddEntity \/ GetEntity

SpecEntities == EntityInit /\ [][EntityNext]_vars

\* C22: the entity map holds at most MAX_ENTITIES references, and when
\* add_entity of a new reference overflows the map the reference removed is
\* the least recently used one, an add_entity of a reference (new or already
\* held) and a get_entity that finds it both counting as a use.
C22_EntityLRU ==
    /\ Len(sessions[1].entities) <= MAX_ENTITIES
    /\ (/\ mem_call.op = "add_entity"
        /\ \A i \in 1..Len(mem_call.before) : mem_call.before[i] # mem_call.key
        /\ Len(mem_call.before) = MAX_ENTITIES) =>
           LET u == mem_call.used_before
               LastUse(k) == CHOOSE i \in 1..Len(u) :
                                 u[i] = k /\ \A j \in (i + 1)..Len(u) : u[j] # k
               held == {mem_call.before[i] : i \in 1..Len(mem_call.before)}
               kept == {sessions[1].entities[i] : i \in 1..Len(sessions[1].entities)}
           IN  \A removed \in held \ kept : \A k \in held :
                   LastUse(removed) <= LastUse(k)

\* ------------------------------------------------------------------------
\* Error recovery (reasoning.py, ErrorRecovery.execute_with_recovery); error
\* messages are sequences of characters
\* ------------------------------------------------------------------------
\* ErrorRecovery.RECOVERY_STRATEGIES, in the order of the dict
RECOVERY_STRATEGIES ==
    <<
       [error_type |-> "sql_syntax", action |-> "orm_fallback",
        pattern |-> <<<<"s", "y", "n", "t", "a", "x", " ", "e", "r", "r", "o", "r">>,
                      <<"n", "o", " ", "s", "u", "c", "h", " ", "c", "o", "l", "u", "m", "n">>,
                      <<"n", "o", " ", "s", "u", "c", "h", " ", "t", "a", "b", "l", "e">>>>],
       [error_type |-> "empty_result", action |-> "broaden_search",
        pattern |-> <<<<"n", "o", " ", "r", "e", "s", "u", "l", "t", "s">>,
                      <<"e", "m", "p", "t", "y">>,
                      <<"n", "o", "t", " ", "f", "o", "u", "n", "d">>>>],
       [error_type |-> "timeout", action |-> "simplify",
        pattern |-> <<<<"t", "i", "m", "e", "o", "u", "t">>,
                      <<"t", "i", "m", "e", "d", " ", "o", "u", "t">>,
                      <<"t", "o", "o", " ", "l", "o", "n", "g">>>>],
       [error_type |-> "llm_error", action |-> "cache_or_orm",
        pattern |-> <<<<"r", "a", "t", "e", " ", "l", "i", "m", "i", "t">>,
                      <<"a", "p", "i", " ", "e", "r", "r", "o", "r">>,
                      <<"c", "o", "n", "n", "e", "c", "t", "i", "o", "n">>>>]
    >>

\* ErrorRecovery.get_recovery_action(error): the action of the first
\* strategy one of whose patterns is in error.lower()
get_recovery_action(err) ==
    LET error_lower == Lower(err)
        Matches(n) == \E k \in 1..Len(RECOVERY_STRATEGIES[n].pattern) :
                          Contains(error_lower, RECOVERY_STRATEGIES[n].pattern[k])
    IN  IF \E n \in 1..Len(RECOVERY_STRATEGIES) : Matches(n)
        THEN RECOVERY_STRATEGIES[CHOOSE n \in 1..Len(RECOVERY_STRATEGIES) :
                 Matches(n) /\ \A j \in 1..(n - 1) : ~Matches(j)].action
        ELSE "orm_fallback"

\* the error messages of the services
Errors ==
    {<<"n", "o", " ", "s", "u", "c", "h", " ", "t", "a", "b", "l", "e", ":", " ", "o", "r", "d", "e", "r", "s">>,
     <<"O", "r", "d", "e", "r", " ", "n", "o", "t", " ", "f", "o", "u", "n", "d">>,
     <<"R", "e", "q", "u", "e", "s", "t", " ", "t", "i", "m", "e", "d", " ", "o", "u", "t">>,
     <<"A", "P", "I", " ", "e", "r", "r", "o", "r">>,
     <<"b", "o", "o", "m">>}

\* str(e) of the AttributeError of result.get on the list _orm_fallback returns
ListHasNoGet ==
    <<"'", "l", "i", "s", "t", "'", " ", "o", "b", "j", "e", "c", "t", " ", "h", "a", "s", " ", "n", "o", " ", "a", "t", "t", "r", "i", "b", "u", "t", "e", " ", "'", "g", "e", "t", "'">>

\* range(cls.MAX_RETRIES + 2)
LoopRangeLonger == MAX_RETRIES + 2

\* range(cls.MAX_RETRIES + 1), line 212
LoopRange == MAX_RETRIES + 1

RecoveryInit ==
    /\ pc = "recover"
    /\ required_agents = <<>>
    /\ parallel_batches = <<>>
    /\ execution_order = <<>>
    /\ CacheInit
    /\ ThreadInit
    /\ RunIdle
    /\ MemInit
    /\ DecomposeIdle
    /\ RecoveryIdle

\* one iteration of the loop of execute_with_recovery, line 212-254: the
\* normal call on attempt 0, otherwise the recovery action of last_error and
\* agent._orm_fallback, which returns a list, so that result.get raises
RecoveryAttempt ==
    /\ pc = "recover"
    /\ recovery.attempt < LoopRange
    /\ LET attempt == recovery.attempt
           Failed(made, entry, last_error) ==
               recovery' = [recovery EXCEPT
                               !.attempt = attempt + 1,
                               !.last_error = last_error,
                               !.attempts = Append(@, entry),
                               !.calls = Append(@, made)]
       IN  IF attempt = 0
           THEN \/ /\ recovery' = [recovery EXCEPT
                          !.calls = Append(@, [op |-> "execute", action |-> "none",
                                               outcome |-> "success"]),
                          !.result = [success |-> TRUE]]
                   /\ pc' = "recovered"
                \/ /\ \E e \in Errors :
                         Failed([op |-> "execute", action |-> "none",
                                 outcome |-> "failure"],
                                [attempt |-> attempt + 1, error |-> e], e)
                   /\ pc' = pc
                \/ /\ \E e \in Errors :
                         Failed([op |-> "execute", action |-> "none",
                                 outcome |-> "raise"],
                                [attempt |-> attempt + 1, exception |-> e], e)
                   /\ pc' = pc
           ELSE LET action == get_recovery_action(recovery.last_error)
                IN  \/ /\ Failed([op |-> "_orm_fallback", action |-> action,
                                  outcome |-> "rows"],
                                 [attempt |-> attempt + 1, exception |-> ListHasNoGet],
                                 ListHasNoGet)
                       /\ pc' = pc
                    \/ /\ \E e \in Errors :
                             Failed([op |-> "_orm_fallback", action |-> action,
                                     outcome |-> "raise"],
                                    [attempt |-> attempt + 1, exception |-> e], e)
                       /\ pc' = pc
    /\ UNCHANGED <<required_agents, parallel_batches, execution_order>>
    /\ UNCHANGED <<cacheVars, threadVars, memVars, decomposed, filled_plan, runVars>>

\* execute_with_recovery, line 256-262: all attempts failed
RecoveryFailed ==
    /\ pc = "recover"
    /\ recovery.attempt >= LoopRange
    /\ recovery' = [recovery EXCEPT
                       !.result = [success |-> FALSE, attempts |-> recovery.attempts]]
    /\ pc' = "recovered"
    /\ UNCHANGED <<required_agents, parallel_batches, execution_order>>
    /\ UNCHANGED <<cacheVars, threadVars, memVars, decomposed, filled_plan, runVars>>

RecoveryNext == RecoveryAttempt \/ RecoveryFailed

SpecRecovery == RecoveryInit /\ [][RecoveryNext]_vars

\* C23: execute_with_recovery makes at most 1 + MAX_RETRIES attempts: the
\* normal call, then recovery attempts, each using the recovery action of the
\* error of the attempt before it; no attempt follows one that reported
\* success, whose result is returned; when every attempt failed it returns
\* success = false with one history entry per attempt, in attempt order.
C23_BoundedRecovery ==
    LET calls == recovery.calls
        ErrorOf(entry) == IF "error" \in DOMAIN entry THEN entry.error
                          ELSE entry.exception
    IN  /\ Len(calls) <= 1 + MAX_RETRIES
        /\ \A i \in 1..Len(calls) :
              /\ i = 1 => calls[i].op = "execute"
              /\ i > 1 => /\ calls[i].op = "_orm_fallback"
                          /\ calls[i].action =
                                 get_recovery_action(ErrorOf(recovery.attempts[i - 1]))
              /\ calls[i].outcome = "success" =>
                    i = Len(calls) /\ recovery.result = [success |-> TRUE]
        /\ pc = "recovered" =>
              \/ /\ recovery.result = [success |-> TRUE]
                 /\ calls[Len(calls)].outcome = "success"
              \/ /\ recovery.result.success = FALSE
                 /\ Len(calls) = 1 + MAX_RETRIES
                 /\ Len(recovery.result.attempts) = Len(calls)
                 /\ \A i \in 1..Len(calls) : recovery.result.attempts[i].attempt = i

\* every attempt failed, the last two through two different recovery actions
C23_Witness ==
    /\ pc = "recovered"
    /\ recovery.result.success = FALSE
    /\ Len(recovery.calls) = 3
    /\ recovery.calls[2].action = "broaden_search"
    /\ recovery.calls[3].action = "simplify"

\* C28: when attempt 0 failed and the fallback lookup of a recovery attempt
\* completes without raising, that attempt is the last one and the procedure
\* returns a successful result.
C28_FallbackSucceeds ==
    \A i \in 1..Len(recovery.calls) :
        (recovery.calls[i].op = "_orm_fallback" /\ recovery.calls[i].outcome = "rows") =>
            /\ i = Len(recovery.calls)
            /\ pc = "recovered" => recovery.result.success

\* C24: decompose returns at most one sub-query per owning service, the
\* sub-queries in the order in which their categories were detected.
C24_OneSubQueryPerService ==
    LET sqs == decomposed.sub_queries
        Position(name) == CHOOSE n \in 1..Len(IntentNames) : IntentNames[n] = name
    IN  pc = "decomposed" =>
        /\ \A i \in 1..Len(sqs) : \A j \in 1..Len(sqs) :
              i # j => sqs[i].agent # sqs[j].agent
        /\ \A i \in 1..Len(sqs) : \A j \in 1..Len(sqs) :
              i < j => Position(sqs[i].intent) < Position(sqs[j].intent)

\* C25: agents_used lists the services in batch order, every service of an
\* earlier batch before every service of a later batch, and the services of
\* one batch in the order in which the batch names them, whatever the order
\* in which their calls completed.
C25_BatchOrder ==
    (batch_idx > 0 /\ pc \in {"route_execution", "synthesize", "handle_error",
                              "end", "responded"}) =>
        LET Listed(a) == CHOOSE n \in 1..Len(AgentOrder) : AgentOrder[n] = a
        IN  \A i \in 1..Len(agents_used) : \A j \in 1..Len(agents_used) :
               i < j =>
                  LET bi == BatchIndex(parallel_batches, agents_used[i])
                      bj == BatchIndex(parallel_batches, agents_used[j])
                  IN  /\ bi <= bj
                      /\ bi = bj => Listed(agents_used[i]) < Listed(agents_used[j])

\* C26: when the run of a query stored a cache entry and a later run of the
\* same query is served from the cache, the plan of the later run has the
\* same batches in the same order as the plan of the run that stored it.
C26_CachedRouting ==
    (/\ route = "cache_hit"
     /\ user_query \in DOMAIN filled_plan
     /\ pc \in {"execute", "batch_submit", "batch_wait", "route_execution",
                "synthesize", "handle_error", "end", "responded"}) =>
        parallel_batches = filled_plan[user_query]

\* C27: a set for a key a full cache already holds replaces that entry only:
\* every other entry is left as it was and the cache still holds max_size
\* entries.
C27_ReplaceInFullCache ==
    (/\ last_call.op = "set"
     /\ Len(last_call.pre) >= max_size
     /\ HasKey(last_call.pre, last_call.key)) =>
        LET pre == last_call.pre
        IN  /\ Len(cache) = max_size
            /\ Lookup(cache, last_call.key) = last_set.cached
            /\ \A i \in 1..Len(pre) :
                  pre[i].key # last_call.key =>
                      /\ HasKey(cache, pre[i].key)
                      /\ Lookup(cache, pre[i].key) = pre[i].value

\* C29: on every routing path the context handed to a service holds under
\* the key order_id (resp. user_id) no value of an entity the query gave
\* under another type (amount, tracking_number, product_name).
C29_EntityKeys ==
    \A a \in DOMAIN call_context : \A k \in {"order_id", "user_id"} :
        k \in DOMAIN call_context[a] =>
            \A i \in 1..Len(ExtractedOf[user_query]) :
                ExtractedOf[user_query][i].type # k =>
                    call_context[a][k] # ExtractedOf[user_query][i].value

\* C30: the batches of a plan partition the required services: every
\* required service is in exactly one batch, no batch is empty, and no batch
\* holds a service that is not required.
C30_PlanPartition ==
    pc \in {"plan_built", "order_built"} =>
        /\ \A a \in AllAgents(required_agents) :
              Cardinality({i \in 1..Len(parallel_batches) : a \in parallel_batches[i]}) = 1
        /\ \A i \in 1..Len(parallel_batches) :
              /\ parallel_batches[i] # {}
              /\ parallel_batches[i] \subseteq AllAgents(required_agents)

\* a plan of three batches over the four services, the last one made of the
\* two services of a dependency cycle
C30_Witness ==
    /\ pc = "plan_built"
    /\ Cardinality(AllAgents(required_agents)) = 4
    /\ Len(parallel_batches) = 3
    /\ Cardinality(parallel_batches[3]) = 2
    /\ \A a \in parallel_batches[3] :
           Dependencies(required_agents)[a] \cap parallel_batches[3] # {}

====
